---- MODULE Spec2Model ----
(***************************************************************************)
(* Model of zephyr's quantitative decision pipeline: the signal builder    *)
(* (zephyr/strategy.py), the fractional-Kelly risk sizer (zephyr/risk.py), *)
(* the backtest engine (zephyr/backtest.py) and the GEFS ensemble forecast *)
(* client (zephyr/forecast/gefs.py): run discovery, grid lookup, variable  *)
(* selection and the ensemble probabilities.                               *)
(*                                                                         *)
(* Python floats are modelled as exact rationals [n, d] in lowest terms    *)
(* with d > 0; every arithmetic operator below is the exact counterpart of *)
(* the float operation the code performs (no rounding, no NaN, no inf).    *)
(***************************************************************************)
EXTENDS Integers, Sequences, FiniteSets, TLC

VARIABLES
    call,       \* SpecPure: the function call under examination (name + arguments)
    ret,        \* the return value of the call (Pending before it is made) or of compute_*
    cfg,        \* run_backtest: its keyword arguments (starting_bankroll, min_edge, risk_config)
    pos,        \* run_backtest: how many rows of the input list the loop has consumed
    row,        \* run_backtest: loop variable row, the row consumed last (None before the first)
    crossed,    \* history: how many consumed rows had |forecast - market| >= min_edge
    degenerate, \* history: how many consumed rows had a market probability outside (0,1)
    bankroll,   \* run_backtest: local variable bankroll
    settled,    \* run_backtest: local variable settled (list of SettledTrade)
    result,     \* run_backtest: the returned BacktestResult, None while the loop runs
    request,    \* forecast: the operation under way and its arguments
    pc,         \* forecast: where the operation stands (the call it is about to make)
    log,        \* forecast: the network requests issued so far, in order
    response,   \* forecast: what the last http_get_text produced (a text or an exception)
    run,        \* forecast: the GEFSRun find_latest_run returned, None before
    error,      \* forecast: the exception that left the operation, None if none
    plan,       \* forecast: compute_*'s locals time_start, time_end and the variable to fetch
    passed_over \* history: the metadata texts of the probed candidates that
                \*          find_latest_run went past

pipelineVars == <<call, ret, cfg, pos, row, crossed, degenerate, bankroll, settled, result>>
requestVars == <<request, pc, log, response, run, error, plan, passed_over>>
vars == <<call, ret, cfg, pos, row, crossed, degenerate, bankroll, settled, result,
          request, pc, log, response, run, error, plan, passed_over>>

-----------------------------------------------------------------------------
(* Bounds of the model.                                                    *)

\* find_latest_run is examined with lookback_days in 0..MaxLookback
MaxLookback == 1

\* the member x time matrices of the ensemble functions have at most MaxCells cells
MaxCells == 4

\* coordinates lie CoordDen-ths of a degree around the poles, the equator,
\* the date line and the wrap of the longitude
CoordDen == 8

\* a dataset declares at most MaxDeclared variables
MaxDeclared == 2

\* a field response parsed on its own has at most MaxLines lines
MaxLines == 3

\* probabilities of the pure-function inputs lie on the grid k/ProbDen, k in -1..ProbDen+1
ProbDen == 4
\* probabilities of the backtest rows lie on the grid k/RowDen, k in 0..RowDen
RowDen == 3
\* longest input list run_backtest is given
MaxRows == 2
\* longest input list of a run_backtest call that is rerun in every order
MaxPermuted == 3

-----------------------------------------------------------------------------
(* Exact rational arithmetic standing for Python float arithmetic.         *)

Abs(x) == IF x < 0 THEN -x ELSE x

RECURSIVE GCD(_, _)
GCD(a, b) == IF b = 0 THEN a ELSE GCD(b, a % b)

\* n/d in lowest terms with a positive denominator (d # 0)
Rat(n, d) ==
    LET g == GCD(Abs(n), Abs(d))
        s == IF d < 0 THEN -1 ELSE 1
    IN  [n |-> (s * n) \div g, d |-> (s * d) \div g]

Zero == Rat(0, 1)
One == Rat(1, 1)

\* what a float division by zero produces: Python raises ZeroDivisionError.
\* The exception leaves every expression it is raised in: an operation on a
\* raised operand is the raised exception
ZeroDivisionError == [n |-> 0, d |-> 0]

RAdd(a, b) ==
    IF a.d = 0 \/ b.d = 0 THEN ZeroDivisionError
    ELSE Rat(a.n * b.d + b.n * a.d, a.d * b.d)
RNeg(a) == [n |-> -a.n, d |-> a.d]
RSub(a, b) == RAdd(a, RNeg(b))
RMul(a, b) ==
    IF a.d = 0 \/ b.d = 0 THEN ZeroDivisionError
    ELSE LET g1 == GCD(Abs(a.n), b.d)
             g2 == GCD(Abs(b.n), a.d)
         IN  Rat((a.n \div g1) * (b.n \div g2), (a.d \div g2) * (b.d \div g1))
RDiv(a, b) ==
    IF b.n = 0 THEN ZeroDivisionError
    ELSE RMul(a, Rat(b.d, b.n))
RLt(a, b) == a.n * b.d < b.n * a.d
RLe(a, b) == a.n * b.d <= b.n * a.d
RGt(a, b) == RLt(b, a)
RGe(a, b) == RLe(b, a)
RAbs(a) == [n |-> Abs(a.n), d |-> a.d]
\* Python's max(a, b) and min(a, b): the first argument unless the second beats it
RMax(a, b) ==
    IF a.d = 0 \/ b.d = 0 THEN ZeroDivisionError
    ELSE IF RGt(b, a) THEN b ELSE a
RMin(a, b) ==
    IF a.d = 0 \/ b.d = 0 THEN ZeroDivisionError
    ELSE IF RLt(b, a) THEN b ELSE a

-----------------------------------------------------------------------------
(* zephyr/strategy.py                                                      *)

None == [kind |-> "None"]

\* the mutant of expected_value_per_dollar whose price guards are strict
expected_value_per_dollar_strict(side, forecast_probability, yes_price) ==
    IF side = "buy_yes" THEN
        IF RLt(yes_price, Zero) \/ RGt(yes_price, One) THEN Zero
        ELSE RSub(RDiv(forecast_probability, yes_price), One)
    ELSE IF side = "buy_no" THEN
        LET no_price == RSub(One, yes_price) IN
        IF RLt(no_price, Zero) \/ RGt(no_price, One) THEN Zero
        ELSE RSub(RDiv(RSub(One, forecast_probability), no_price), One)
    ELSE Zero

expected_value_per_dollar(side, forecast_probability, yes_price) ==
    IF side = "buy_yes" THEN
        IF RLe(yes_price, Zero) \/ RGe(yes_price, One) THEN Zero
        ELSE RSub(RDiv(forecast_probability, yes_price), One)
    ELSE IF side = "buy_no" THEN
        LET no_price == RSub(One, yes_price) IN
        IF RLe(no_price, Zero) \/ RGe(no_price, One) THEN Zero
        ELSE RSub(RDiv(RSub(One, forecast_probability), no_price), One)
    ELSE Zero

\* types.Signal; the rationale string (a formatted rendering of the other
\* fields that nothing reads back) is not carried
Signal(event_id, contract_ticker, side, forecast_probability, market_probability, edge, ev) ==
    [kind |-> "Signal",
     event_id |-> event_id,
     contract_ticker |-> contract_ticker,
     side |-> side,
     forecast_probability |-> forecast_probability,
     market_probability |-> market_probability,
     edge |-> edge,
     expected_value_per_dollar |-> ev]

\* the mutant of build_signal that compares the edge strictly with the threshold
build_signal_strict(event_id, contract_ticker, forecast_probability, market_probability, min_edge) ==
    LET edge == RSub(forecast_probability, market_probability)
        side == IF RGt(edge, min_edge) THEN "buy_yes"
                ELSE IF RLt(edge, RNeg(min_edge)) THEN "buy_no"
                ELSE "none"
        ev == expected_value_per_dollar(side, forecast_probability, market_probability)
    IN  IF side = "none" THEN None
        ELSE IF RLe(ev, Zero) THEN None
        ELSE Signal(event_id, contract_ticker, side, forecast_probability,
                    market_probability, edge, ev)

\* the mutant of build_signal that drops the expected-value filter
build_signal_nofilter(event_id, contract_ticker, forecast_probability, market_probability, min_edge) ==
    LET edge == RSub(forecast_probability, market_probability)
        side == IF RGe(edge, min_edge) THEN "buy_yes"
                ELSE IF RLe(edge, RNeg(min_edge)) THEN "buy_no"
                ELSE "none"
        ev == expected_value_per_dollar(side, forecast_probability, market_probability)
    IN  IF side = "none" THEN None
        ELSE Signal(event_id, contract_ticker, side, forecast_probability,
                    market_probability, edge, ev)

\* an exception raised by expected_value_per_dollar leaves build_signal too
build_signal(event_id, contract_ticker, forecast_probability, market_probability, min_edge) ==
    LET edge == RSub(forecast_probability, market_probability)
        side == IF RGe(edge, min_edge) THEN "buy_yes"
                ELSE IF RLe(edge, RNeg(min_edge)) THEN "buy_no"
                ELSE "none"
        ev == expected_value_per_dollar(side, forecast_probability, market_probability)
    IN  IF side = "none" THEN None
        ELSE IF ev = ZeroDivisionError THEN ZeroDivisionError
        ELSE IF RLe(ev, Zero) THEN None
        ELSE Signal(event_id, contract_ticker, side, forecast_probability,
                    market_probability, edge, ev)

-----------------------------------------------------------------------------
(* zephyr/risk.py                                                          *)

RiskConfig(max_fraction_per_contract, kelly_scale, min_fraction_if_trade) ==
    [max_fraction_per_contract |-> max_fraction_per_contract,
     kelly_scale |-> kelly_scale,
     min_fraction_if_trade |-> min_fraction_if_trade]

\* the mutant of kelly_fraction_yes without the guard on the price
kelly_fraction_yes_unguarded(forecast_probability, yes_price) ==
    RMax(Zero, RDiv(RSub(forecast_probability, yes_price), RSub(One, yes_price)))

kelly_fraction_yes(forecast_probability, yes_price) ==
    IF RLe(yes_price, Zero) \/ RGe(yes_price, One) THEN Zero
    ELSE RMax(Zero, RDiv(RSub(forecast_probability, yes_price), RSub(One, yes_price)))

\* the mutant of kelly_fraction_no with the numerator's operands swapped
kelly_fraction_no_swapped(forecast_probability, yes_price) ==
    IF RLe(yes_price, Zero) \/ RGe(yes_price, One) THEN Zero
    ELSE RMax(Zero, RDiv(RSub(forecast_probability, yes_price), yes_price))

kelly_fraction_no(forecast_probability, yes_price) ==
    IF RLe(yes_price, Zero) \/ RGe(yes_price, One) THEN Zero
    ELSE RMax(Zero, RDiv(RSub(yes_price, forecast_probability), yes_price))

SizedSignal(signal, fraction_of_bankroll, stake_dollars) ==
    [kind |-> "SizedSignal",
     signal |-> signal,
     fraction_of_bankroll |-> fraction_of_bankroll,
     stake_dollars |-> stake_dollars]

\* the mutant of size_signal that applies the cap before the Kelly scale
size_signal_cap_first(signal, bankroll_, config) ==
    IF RLe(bankroll_, Zero) THEN None
    ELSE IF signal.side \notin {"buy_yes", "buy_no"} THEN None
    ELSE
        LET raw_fraction ==
                IF signal.side = "buy_yes"
                THEN kelly_fraction_yes(signal.forecast_probability, signal.market_probability)
                ELSE kelly_fraction_no(signal.forecast_probability, signal.market_probability)
            bounded_fraction ==
                RMul(RMin(config.max_fraction_per_contract, raw_fraction), config.kelly_scale)
            stake == RMul(bankroll_, bounded_fraction)
        IN  IF RLt(bounded_fraction, config.min_fraction_if_trade) THEN None
            ELSE IF RLe(stake, Zero) THEN None
            ELSE SizedSignal(signal, bounded_fraction, stake)

\* the mutant of size_signal that skips the min_fraction_if_trade floor
size_signal_no_floor(signal, bankroll_, config) ==
    IF RLe(bankroll_, Zero) THEN None
    ELSE IF signal.side \notin {"buy_yes", "buy_no"} THEN None
    ELSE
        LET raw_fraction ==
                IF signal.side = "buy_yes"
                THEN kelly_fraction_yes(signal.forecast_probability, signal.market_probability)
                ELSE kelly_fraction_no(signal.forecast_probability, signal.market_probability)
            scaled_fraction == RMul(raw_fraction, config.kelly_scale)
            bounded_fraction == RMin(config.max_fraction_per_contract, scaled_fraction)
            stake == RMul(bankroll_, bounded_fraction)
        IN  IF RLe(stake, Zero) THEN None
            ELSE SizedSignal(signal, bounded_fraction, stake)

\* the mutant of size_signal that bounds with max instead of min
size_signal_max(signal, bankroll_, config) ==
    IF RLe(bankroll_, Zero) THEN None
    ELSE IF signal.side \notin {"buy_yes", "buy_no"} THEN None
    ELSE
        LET raw_fraction ==
                IF signal.side = "buy_yes"
                THEN kelly_fraction_yes(signal.forecast_probability, signal.market_probability)
                ELSE kelly_fraction_no(signal.forecast_probability, signal.market_probability)
            scaled_fraction == RMul(raw_fraction, config.kelly_scale)
            bounded_fraction == RMax(config.max_fraction_per_contract, scaled_fraction)
            stake == RMul(bankroll_, bounded_fraction)
        IN  IF RLt(bounded_fraction, config.min_fraction_if_trade) THEN None
            ELSE IF RLe(stake, Zero) THEN None
            ELSE SizedSignal(signal, bounded_fraction, stake)

\* an exception raised by _kelly_fraction_yes or _kelly_fraction_no leaves
\* size_signal too
size_signal(signal, bankroll_, config) ==
    IF RLe(bankroll_, Zero) THEN None
    ELSE IF signal.side \notin {"buy_yes", "buy_no"} THEN None
    ELSE
        LET raw_fraction ==
                IF signal.side = "buy_yes"
                THEN kelly_fraction_yes(signal.forecast_probability, signal.market_probability)
                ELSE kelly_fraction_no(signal.forecast_probability, signal.market_probability)
            scaled_fraction == RMul(raw_fraction, config.kelly_scale)
            bounded_fraction == RMin(config.max_fraction_per_contract, scaled_fraction)
            stake == RMul(bankroll_, bounded_fraction)
        IN  IF raw_fraction = ZeroDivisionError THEN ZeroDivisionError
            ELSE IF RLt(bounded_fraction, config.min_fraction_if_trade) THEN None
            ELSE IF RLe(stake, Zero) THEN None
            ELSE SizedSignal(signal, bounded_fraction, stake)

-----------------------------------------------------------------------------
(* zephyr/backtest.py                                                      *)

BacktestRow(event_id, contract_ticker, forecast_probability, market_probability, outcome) ==
    [event_id |-> event_id,
     contract_ticker |-> contract_ticker,
     forecast_probability |-> forecast_probability,
     market_probability |-> market_probability,
     outcome |-> outcome,
     timestamp |-> None]

\* the mutant of settle_pnl that pays a win the gross payout stake / price
settle_pnl_gross(side, price_yes, stake, outcome) ==
    IF RLe(stake, Zero) THEN Zero
    ELSE IF RLe(price_yes, Zero) \/ RGe(price_yes, One) THEN Zero
    ELSE IF side = "buy_yes" THEN
        IF outcome = 1 THEN RMul(stake, RDiv(One, price_yes))
        ELSE RNeg(stake)
    ELSE IF side = "buy_no" THEN
        LET price_no == RSub(One, price_yes) IN
        IF RLe(price_no, Zero) THEN Zero
        ELSE IF outcome = 0 THEN RMul(stake, RDiv(One, price_no))
        ELSE RNeg(stake)
    ELSE Zero

\* the mutant of settle_pnl that voids a trade whose outcome is neither 0 nor 1
settle_pnl_void_unknown(side, price_yes, stake, outcome) ==
    IF RLe(stake, Zero) THEN Zero
    ELSE IF RLe(price_yes, Zero) \/ RGe(price_yes, One) THEN Zero
    ELSE IF outcome \notin {0, 1} THEN Zero
    ELSE IF side = "buy_yes" THEN
        IF outcome = 1 THEN RMul(stake, RSub(RDiv(One, price_yes), One))
        ELSE RNeg(stake)
    ELSE IF side = "buy_no" THEN
        LET price_no == RSub(One, price_yes) IN
        IF RLe(price_no, Zero) THEN Zero
        ELSE IF outcome = 0 THEN RMul(stake, RSub(RDiv(One, price_no), One))
        ELSE RNeg(stake)
    ELSE Zero

settle_pnl(side, price_yes, stake, outcome) ==
    IF RLe(stake, Zero) THEN Zero
    ELSE IF RLe(price_yes, Zero) \/ RGe(price_yes, One) THEN Zero
    ELSE IF side = "buy_yes" THEN
        IF outcome = 1 THEN RMul(stake, RSub(RDiv(One, price_yes), One))
        ELSE RNeg(stake)
    ELSE IF side = "buy_no" THEN
        LET price_no == RSub(One, price_yes) IN
        IF RLe(price_no, Zero) THEN Zero
        ELSE IF outcome = 0 THEN RMul(stake, RSub(RDiv(One, price_no), One))
        ELSE RNeg(stake)
    ELSE Zero

SettledTrade(r, signal, sized, pnl, bankroll_after) ==
    [event_id |-> r.event_id,
     contract_ticker |-> r.contract_ticker,
     side |-> signal.side,
     forecast_probability |-> r.forecast_probability,
     market_probability |-> r.market_probability,
     edge |-> signal.edge,
     stake_dollars |-> sized.stake_dollars,
     pnl_dollars |-> pnl,
     outcome |-> r.outcome,
     bankroll_after |-> bankroll_after,
     timestamp |-> r.timestamp]

\* RiskConfig() with the dataclass defaults 0.03, 0.25, 0.0
DefaultRiskConfig == RiskConfig(Rat(3, 100), Rat(1, 4), Zero)

\* config = risk_config or RiskConfig()
Config == IF cfg.risk_config = None THEN DefaultRiskConfig ELSE cfg.risk_config

\* sum(1 for trade in settled if trade.pnl_dollars > 0.0)
Wins(trades) == Cardinality({k \in 1..Len(trades) : RGt(trades[k].pnl_dollars, Zero)})
\* sum(1 for trade in settled if trade.pnl_dollars < 0.0)
Losses(trades) == Cardinality({k \in 1..Len(trades) : RLt(trades[k].pnl_dollars, Zero)})

\* the mutant of AbsEdge that forgets abs()
AbsEdge_signed(trade) == trade.edge

AbsEdge(trade) == RAbs(trade.edge)

RECURSIVE SumAbsEdge(_)
\* sum(abs(trade.edge) for trade in settled), accumulated in list order
SumAbsEdge(trades) ==
    IF trades = <<>> THEN Zero
    ELSE RAdd(SumAbsEdge(SubSeq(trades, 1, Len(trades) - 1)), AbsEdge(trades[Len(trades)]))

\* the tail of run_backtest: the aggregates and the returned BacktestResult
BacktestResult(starting_bankroll, bankroll_, trades) ==
    LET total_trades == Len(trades)
        wins == Wins(trades)
        losses == Losses(trades)
    IN  [kind |-> "BacktestResult",
         starting_bankroll |-> starting_bankroll,
         ending_bankroll |-> bankroll_,
         total_trades |-> total_trades,
         winning_trades |-> wins,
         losing_trades |-> losses,
         win_rate |-> IF total_trades # 0 THEN RDiv(Rat(wins, 1), Rat(total_trades, 1)) ELSE Zero,
         total_pnl |-> RSub(bankroll_, starting_bankroll),
         return_pct |-> IF RGt(starting_bankroll, Zero)
                        THEN RSub(RDiv(bankroll_, starting_bankroll), One)
                        ELSE Zero,
         average_edge |-> IF total_trades # 0
                          THEN RDiv(SumAbsEdge(trades), Rat(total_trades, 1))
                          ELSE Zero,
         trades |-> trades]

-----------------------------------------------------------------------------
(* zephyr/forecast/gefs.py: the half-degree grid                           *)

\* math.floor of a rational
RFloor(q) == q.n \div q.d

\* Python's round(x): to the nearest integer, a tie going to the even one
RRound(q) ==
    LET f == RFloor(q)
        twice == 2 * (q.n - f * q.d)
    IN  IF twice < q.d THEN f
        ELSE IF twice > q.d THEN f + 1
        ELSE IF f % 2 = 0 THEN f ELSE f + 1

\* Python's a % m for a positive m: the result lies in [0, m)
RMod(a, m) == RSub(a, RMul(m, Rat(RFloor(RDiv(a, m)), 1)))

Min(a, b) == IF b < a THEN b ELSE a
Max(a, b) == IF b > a THEN b ELSE a

\* the last index of the latitude axis (min(360, ...)) and of the longitude axis
LatIdxMax == 360
LonIdxMax == 719

\* A function that may raise yields a record: the exception raised, or, for
\* a function returning a list or a string, Returns(value)
ValueError(msg) == [kind |-> "ValueError", msg |-> msg]
RuntimeError(msg) == [kind |-> "RuntimeError", msg |-> msg]
Returns(value) == [returns |-> value]
IsError(outcome) ==
    "kind" \in DOMAIN outcome /\ outcome.kind \in {"ValueError", "RuntimeError"}

\* the mutant of nearest_grid_indices that does not clamp the indices
nearest_grid_indices_unclamped(lat, lon) ==
    IF RLt(lat, Rat(-90, 1)) \/ RGt(lat, Rat(90, 1))
    THEN ValueError("Latitude must be between -90 and 90.")
    ELSE LET lon_360 == RMod(lon, Rat(360, 1))
         IN  [lat_idx |-> RRound(RDiv(RAdd(lat, Rat(90, 1)), Rat(1, 2))),
              lon_idx |-> RRound(RDiv(lon_360, Rat(1, 2)))]

nearest_grid_indices(lat, lon) ==
    IF RLt(lat, Rat(-90, 1)) \/ RGt(lat, Rat(90, 1))
    THEN ValueError("Latitude must be between -90 and 90.")
    ELSE LET lon_360 == RMod(lon, Rat(360, 1))
             lat_idx == RRound(RDiv(RAdd(lat, Rat(90, 1)), Rat(1, 2)))
             lon_idx == RRound(RDiv(lon_360, Rat(1, 2)))
         IN  [lat_idx |-> Min(LatIdxMax, Max(0, lat_idx)),
              lon_idx |-> Min(LonIdxMax, Max(0, lon_idx))]

grid_coords_from_indices(lat_idx, lon_idx) ==
    LET lat == RAdd(Rat(-90, 1), RMul(Rat(1, 2), Rat(lat_idx, 1)))
        lon_360 == RMul(Rat(1, 2), Rat(lon_idx, 1))
        lon_180 == RSub(RMod(RAdd(lon_360, Rat(180, 1)), Rat(360, 1)), Rat(180, 1))
    IN  [lat |-> lat, lon |-> lon_180]

-----------------------------------------------------------------------------
(* zephyr/forecast/gefs.py: run discovery                                  *)

\* A text is a sequence of tokens: a whitespace character, the opener
\* "Dataset {", a line declaring an array variable ("Float32 name[...];",
\* what parse_dds_variable_names' pattern matches), or any other run of
\* characters.  A variable name is a sequence of characters.
Ws(ch) == [tok |-> "whitespace", ch |-> ch]
Opener == [tok |-> "Dataset {"]
Decl(name) == [tok |-> "declaration", name |-> name]
Other(chars) == [tok |-> "other", chars |-> chars]
Whitespace == {Ws(" "), Ws("\n"), Ws("\t")}

\* the mutant of lstrip that strips nothing
lstrip_nothing(text) == text

RECURSIVE lstrip(_)
\* str.lstrip(): the text without its leading whitespace
lstrip(text) ==
    IF text # <<>> /\ Head(text) \in Whitespace THEN lstrip(Tail(text)) ELSE text

\* str.startswith(prefix), for a prefix that is one token
startswith(text, prefix) == text # <<>> /\ Head(text) = prefix

\* the cycle hours of a day in the order find_latest_run tries them
CycleHours == <<18, 12, 6, 0>>

\* the k-th (day_offset, cycle_hour) of the nested loops, k = 1, 2, ...
Candidate(k) ==
    [day_offset |-> (k - 1) \div Len(CycleHours),
     cycle_hour |-> CycleHours[((k - 1) % Len(CycleHours)) + 1]]

\* how many candidates range(lookback_days + 1) x (18, 12, 6, 0) holds
CandidateCount(lookback_days) == (lookback_days + 1) * Len(CycleHours)

\* GEFSRun: run_date is today minus day_offset; dataset_base is a function
\* of the other two fields
GEFSRun(day_offset, cycle_hour) ==
    [kind |-> "GEFSRun", day_offset |-> day_offset, cycle_hour |-> cycle_hour]

\* what http_get_text produces: the decoded body, or one of the exceptions
\* urlopen, response.read() and bytes.decode raise.  HTTPError is a non-2xx
\* status; URLError a failure to connect or to send; TimeoutError a timeout;
\* RemoteDisconnected (a ConnectionResetError, not a URLError) a connection
\* the server drops before or while it answers; UnicodeDecodeError a body
\* that is not UTF-8
HttpExceptions ==
    {"HTTPError", "URLError", "TimeoutError", "RemoteDisconnected", "UnicodeDecodeError"}
Raises(exception) == [kind |-> exception]
Text(text) == [kind |-> "text", text |-> text]

\* except (HTTPError, URLError, TimeoutError): continue
CaughtByScan == {"HTTPError", "URLError", "TimeoutError"}

-----------------------------------------------------------------------------
(* zephyr/forecast/gefs.py: the precipitation variable of a dataset        *)

\* the variable names the model declares
apcpsfc == <<"a", "p", "c", "p", "s", "f", "c">>
APCPsfc == <<"A", "P", "C", "P", "s", "f", "c">>
apcp == <<"a", "p", "c", "p">>
Apcp6 == <<"A", "p", "c", "p", "6">>
Precip == <<"P", "r", "e", "c", "i", "p">>
prate == <<"p", "r", "a", "t", "e">>
tmp2m == <<"t", "m", "p", "2", "m">>

\* str.lower() of one character and of a name
LowerChar(ch) ==
    IF ch = "A" THEN "a" ELSE IF ch = "C" THEN "c" ELSE IF ch = "P" THEN "p" ELSE ch
lower(name) == [i \in 1..Len(name) |-> LowerChar(name[i])]

\* needle in hay
contains(hay, needle) ==
    \E i \in 0..(Len(hay) - Len(needle)) : SubSeq(hay, i + 1, i + Len(needle)) = needle

IsDecl(token) == token.tok = "declaration"
\* the names of the declaration lines, in the order of the text
parse_dds_variable_names(text) ==
    LET lines == SelectSeq(text, IsDecl)
    IN  [i \in 1..Len(lines) |-> lines[i].name]

\* lower_map = {name.lower(): name for name in names}: "key in lower_map" and
\* lower_map[key]; a later name replaces an earlier one under the same key
InLowerMap(names, key) == \E i \in 1..Len(names) : lower(names[i]) = key
LowerMapGet(names, key) ==
    LET hits == {i \in 1..Len(names) : lower(names[i]) = key}
    IN  names[CHOOSE i \in hits : \A j \in hits : j <= i]

\* the positions of the names whose lowercase contains "apcp" or "precip"
Containing(names) ==
    {i \in 1..Len(names) : \/ contains(lower(names[i]), apcp)
                           \/ contains(lower(names[i]), lower(Precip))}
\* the first of them in declaration order
FirstContaining(names) ==
    names[CHOOSE i \in Containing(names) : \A j \in Containing(names) : i <= j]

\* the mutant of find_precip_variable that scans for a substring match first
find_precip_variable_scan_first(dds_text) ==
    LET names == parse_dds_variable_names(dds_text)
    IN  IF names = <<>>
        THEN RuntimeError("Could not parse any variables from GEFS dataset DDS.")
        ELSE IF Containing(names) # {} THEN Returns(FirstContaining(names))
        ELSE RuntimeError("Could not find a precipitation variable in GEFS dataset DDS.")

find_precip_variable(dds_text) ==
    LET names == parse_dds_variable_names(dds_text)
    IN  IF names = <<>>
        THEN RuntimeError("Could not parse any variables from GEFS dataset DDS.")
        ELSE IF InLowerMap(names, apcpsfc) THEN Returns(LowerMapGet(names, apcpsfc))
        ELSE IF InLowerMap(names, apcp) THEN Returns(LowerMapGet(names, apcp))
        ELSE IF Containing(names) # {} THEN Returns(FirstContaining(names))
        ELSE RuntimeError("Could not find a precipitation variable in GEFS dataset DDS.")

-----------------------------------------------------------------------------
(* zephyr/forecast/gefs.py: from the member x time matrix to a probability *)

\* A cell of the matrix is a float: an ordinary number (a rational of the
\* magnitude of a temperature or a rainfall, far below FILL_VALUE / 10),
\* the fill value 9.999e20 itself, or NaN (a cell the response left out).
NaN == [float |-> "nan"]
FILL_VALUE == [float |-> "9.999e20"]

\* math.isfinite(value) and value < (FILL_VALUE / 10.0)
is_valid_value(value) == value # NaN /\ value # FILL_VALUE

\* (temp_f - 32.0) * (5.0 / 9.0) + 273.15
fahrenheit_to_kelvin(temp_f) ==
    RAdd(RMul(RSub(temp_f, Rat(32, 1)), Rat(5, 9)), Rat(27315, 100))

\* value_in * MM_PER_INCH
MM_PER_INCH == Rat(254, 10)
inches_to_mm(value_in) == RMul(value_in, MM_PER_INCH)

\* [value for value in values if _is_valid_value(value)]
ValidValues(values) == SelectSeq(values, is_valid_value)

RECURSIVE MaxOf(_)
\* max(values) of a non-empty list
MaxOf(values) ==
    IF Len(values) = 1 THEN values[1]
    ELSE RMax(values[1], MaxOf(Tail(values)))

RECURSIVE SumOf(_)
\* sum(values), 0 for the empty list
SumOf(values) ==
    IF values = <<>> THEN Zero ELSE RAdd(values[1], SumOf(Tail(values)))

RECURSIVE MemberMaxima(_)
\* member_maxima_k: the maximum of the valid values of each row that has
\* one, in the order of the rows
MemberMaxima(matrix) ==
    IF matrix = <<>> THEN <<>>
    ELSE (IF ValidValues(matrix[1]) # <<>> THEN <<MaxOf(ValidValues(matrix[1]))>> ELSE <<>>)
         \o MemberMaxima(Tail(matrix))

\* what both compute_* operations report of the ensemble
Probability(runs_exceeding, total_runs) ==
    [probability |-> RDiv(Rat(runs_exceeding, 1), Rat(total_runs, 1)),
     runs_exceeding |-> runs_exceeding,
     total_runs |-> total_runs]

\* sum(1 for value in values if value >= threshold)
CountAtLeast(values, threshold) ==
    Cardinality({i \in 1..Len(values) : RGe(values[i], threshold)})

\* the mutant of temperature_probability that counts every member of the
\* matrix in the denominator
temperature_probability_all_members(matrix, threshold_f) ==
    LET threshold_k == fahrenheit_to_kelvin(threshold_f)
        member_maxima_k == MemberMaxima(matrix)
    IN  IF member_maxima_k = <<>>
        THEN RuntimeError("No valid ensemble values found for the selected event window.")
        ELSE Probability(CountAtLeast(member_maxima_k, threshold_k), Len(matrix))

\* compute_temperature_event_probability, from the parsed matrix on
temperature_probability(matrix, threshold_f) ==
    LET threshold_k == fahrenheit_to_kelvin(threshold_f)
        member_maxima_k == MemberMaxima(matrix)
    IN  IF member_maxima_k = <<>>
        THEN RuntimeError("No valid ensemble values found for the selected event window.")
        ELSE Probability(CountAtLeast(member_maxima_k, threshold_k), Len(member_maxima_k))

\* a + b and a < b for operands with denominators up to 10^6: the same
\* values as RAdd and RLt, the common factor of the denominators taken out
\* before the products so that they stay within TLC's integers
RAddWide(a, b) ==
    LET g == GCD(a.d, b.d)
    IN  Rat(a.n * (b.d \div g) + b.n * (a.d \div g), (a.d \div g) * b.d)
RLtWide(a, b) ==
    LET g == GCD(a.d, b.d)
    IN  a.n * (b.d \div g) < b.n * (a.d \div g)

\* the tolerance of _is_cumulative_matrix
Tolerance == Rat(1, 1000000)

RECURSIVE RowIsCumulative_adjacent(_, _)
\* the mutant of RowIsCumulative that forgets the previous valid value at an
\* invalid cell
RowIsCumulative_adjacent(values, prev) ==
    IF values = <<>> THEN TRUE
    ELSE IF ~is_valid_value(values[1]) THEN RowIsCumulative_adjacent(Tail(values), None)
    ELSE IF prev # None /\ RLtWide(RAddWide(values[1], Tolerance), prev) THEN FALSE
    ELSE RowIsCumulative_adjacent(Tail(values), values[1])

RECURSIVE RowIsCumulative(_, _)
\* the inner loop of _is_cumulative_matrix over one row: no valid value is
\* more than 1e-6 below the valid value before it (prev: None at the start)
RowIsCumulative(values, prev) ==
    IF values = <<>> THEN TRUE
    ELSE IF ~is_valid_value(values[1]) THEN RowIsCumulative(Tail(values), prev)
    ELSE IF prev # None /\ RLtWide(RAddWide(values[1], Tolerance), prev) THEN FALSE
    ELSE RowIsCumulative(Tail(values), values[1])

is_cumulative_matrix(matrix) ==
    \A m \in 1..Len(matrix) : RowIsCumulative(matrix[m], None)

\* _last_valid and _first_valid: None when no value is valid
last_valid(values) ==
    IF ValidValues(values) = <<>> THEN None
    ELSE ValidValues(values)[Len(ValidValues(values))]
first_valid(values) ==
    IF ValidValues(values) = <<>> THEN None ELSE ValidValues(values)[1]

\* row[window_offset:] and row[:window_offset]
DayValues(values, window_offset) == SubSeq(values, window_offset + 1, Len(values))
Baseline(values, window_offset) == SubSeq(values, 1, window_offset)

\* fetch_start = time_start - 1 if time_start > 0 else time_start, and
\* window_offset = time_start - fetch_start
FetchStart(time_start) == IF time_start > 0 THEN time_start - 1 ELSE time_start
WindowOffset(time_start) == time_start - FetchStart(time_start)

\* the mutant of MemberTotal whose incremental total is the sum over every
\* fetched step
MemberTotal_sum_fetched(values, window_offset, is_cumulative) ==
    LET day_values == DayValues(values, window_offset)
    IN  IF day_values = <<>> THEN None
        ELSE IF is_cumulative
        THEN LET end_val == last_valid(day_values)
                 base_val == IF window_offset > 0
                             THEN last_valid(Baseline(values, window_offset))
                             ELSE first_valid(day_values)
             IN  IF end_val = None \/ base_val = None THEN None
                 ELSE RMax(Zero, RSub(end_val, base_val))
        ELSE SumOf(ValidValues(values))

\* the body of "for row in matrix" in compute_precip_event_probability: the
\* total appended for the row, None when the row is left out ("continue")
MemberTotal(values, window_offset, is_cumulative) ==
    LET day_values == DayValues(values, window_offset)
    IN  IF day_values = <<>> THEN None
        ELSE IF is_cumulative
        THEN LET end_val == last_valid(day_values)
                 base_val == IF window_offset > 0
                             THEN last_valid(Baseline(values, window_offset))
                             ELSE first_valid(day_values)
             IN  IF end_val = None \/ base_val = None THEN None
                 ELSE RMax(Zero, RSub(end_val, base_val))
        ELSE SumOf(ValidValues(day_values))

RECURSIVE MemberTotals(_, _, _)
\* member_totals_mm, in the order of the rows
MemberTotals(matrix, window_offset, is_cumulative) ==
    IF matrix = <<>> THEN <<>>
    ELSE (IF MemberTotal(matrix[1], window_offset, is_cumulative) = None THEN <<>>
          ELSE <<MemberTotal(matrix[1], window_offset, is_cumulative)>>)
         \o MemberTotals(Tail(matrix), window_offset, is_cumulative)

\* compute_precip_event_probability, from the parsed matrix on
precip_probability(matrix, window_offset, threshold_in) ==
    LET threshold_mm == inches_to_mm(threshold_in)
        member_totals_mm == MemberTotals(matrix, window_offset, is_cumulative_matrix(matrix))
    IN  IF member_totals_mm = <<>>
        THEN RuntimeError("No valid ensemble precipitation totals found.")
        ELSE Probability(CountAtLeast(member_totals_mm, threshold_mm), Len(member_totals_mm))

-----------------------------------------------------------------------------
(* The inputs.                                                             *)

\* tests/test_backtest.py: the scenario of test_backtest_executes_and_updates_bankroll
TestRows ==
    << BacktestRow(1, "C-A", Rat(70, 100), Rat(50, 100), 1),
       BacktestRow(2, "C-B", Rat(30, 100), Rat(45, 100), 0),
       BacktestRow(3, "C-C", Rat(57, 100), Rat(50, 100), 1) >>

BacktestArgs(starting_bankroll, min_edge, risk_config) ==
    [starting_bankroll |-> starting_bankroll,
     min_edge |-> min_edge,
     risk_config |-> risk_config]

TestArgs == BacktestArgs(Rat(10000, 1), Rat(1, 10), RiskConfig(Rat(3, 100), Rat(1, 4), Zero))

\* the keyword arguments run_backtest is examined with, besides the test's
GridArgs ==
    { BacktestArgs(Rat(100, 1), Rat(1, 2), None),
      BacktestArgs(Rat(100, 1), Rat(1, 2), RiskConfig(Rat(1, 2), Rat(2, 1), Zero)),
      BacktestArgs(Rat(100, 1), Rat(1, 2), RiskConfig(One, Rat(2, 1), Zero)),
      BacktestArgs(Rat(100, 1), Rat(1, 4), RiskConfig(Rat(1, 2), Rat(1, 2), Rat(1, 3))),
      BacktestArgs(Rat(100, 1), Zero, RiskConfig(Rat(1, 4), One, Zero)),
      BacktestArgs(Rat(100, 1), Rat(1, 4), RiskConfig(Rat(1, 4), Zero, Zero)),
      BacktestArgs(Zero, Rat(1, 4), RiskConfig(Rat(1, 4), One, Zero)),
      BacktestArgs(Rat(-100, 1), Zero, RiskConfig(Rat(1, 4), One, Zero)) }

RowGrid == {Rat(k, RowDen) : k \in 0..RowDen}

\* the rows that may come next in the input list: the test's own rows in the
\* test's order (timestamp None, as the test leaves it), otherwise any row on
\* the grid with the outcome 0 or 1 and, outcome being any int, the rows
\* with the outcome 2 whose forecast is 0 or 1 (a row for either side).
\* Event ids number the rows; the grid rows are dated (a day number) in the
\* reverse of the list order, so that the list is never in chronological
\* order
NextRows ==
    IF cfg = TestArgs
    THEN IF pos < Len(TestRows) THEN {TestRows[pos + 1]} ELSE {}
    ELSE IF pos < MaxRows
         THEN {[BacktestRow(pos + 1, "C", f, m, o) EXCEPT !.timestamp = MaxRows - pos]
                 : f \in RowGrid, m \in RowGrid, o \in {0, 1}}
              \cup
              {[BacktestRow(pos + 1, "C", f, m, 2) EXCEPT !.timestamp = MaxRows - pos]
                 : f \in {Zero, One}, m \in RowGrid}
         ELSE {}

ProbGrid == {Rat(k, ProbDen) : k \in (-1)..(ProbDen + 1)}
MinEdges == {Rat(k, ProbDen) : k \in (-1)..2}
Sides == {"buy_yes", "buy_no", "hold"}
Bankrolls == {Rat(-1, 1), Zero, Rat(100, 1)}
Caps == {Rat(-1, 4), Zero, Rat(1, 4), One}
Scales == {Rat(-1, 1), Zero, Rat(1, 2), Rat(2, 1)}
Floors == {Rat(-1, 4), Zero, Rat(1, 4)}
Stakes == {Rat(-1, 1), Zero, One, Rat(3, 1)}
Outcomes == {0, 1, 2}

Pending == [kind |-> "Pending"]
\* no pure call is under examination
NoCall == [fn |-> "none"]

\* a Signal as a caller may hand it to size_signal: any side, any probabilities
AnySignal(side, f, m) ==
    Signal("evt", "C", side, f, m, RSub(f, m), expected_value_per_dollar(side, f, m))

BuildSignalCalls ==
    { [fn |-> "build_signal", forecast_probability |-> f, market_probability |-> m, min_edge |-> e]
        : f \in ProbGrid, m \in ProbGrid, e \in MinEdges }
    \cup
    \* tests/test_strategy_risk.py
    { [fn |-> "build_signal", forecast_probability |-> Rat(72, 100),
       market_probability |-> Rat(54, 100), min_edge |-> Rat(1, 10)],
      [fn |-> "build_signal", forecast_probability |-> Rat(31, 100),
       market_probability |-> Rat(48, 100), min_edge |-> Rat(1, 10)] }

SizeSignalCalls ==
    { [fn |-> "size_signal", signal |-> AnySignal(s, f, m), bankroll |-> b,
       config |-> RiskConfig(c, k, fl)]
        : s \in Sides, f \in ProbGrid, m \in ProbGrid, b \in Bankrolls,
          c \in Caps, k \in Scales, fl \in Floors }
    \cup
    \* tests/test_strategy_risk.py: test_size_signal_capped
    { [fn |-> "size_signal",
       signal |-> build_signal("evt-3", "C-3", Rat(80, 100), Rat(50, 100), Rat(1, 10)),
       bankroll |-> Rat(10000, 1),
       config |-> RiskConfig(Rat(3, 100), One, Zero)] }

SettlePnlCalls ==
    { [fn |-> "settle_pnl", side |-> s, price_yes |-> p, stake |-> st, outcome |-> o]
        : s \in Sides, p \in ProbGrid, st \in Stakes, o \in Outcomes }

-----------------------------------------------------------------------------
(* Spec: run_backtest as a state machine over its input rows, and direct   *)
(* calls of _settle_pnl, build_signal and size_signal.                     *)

NoRequest == [op |-> "none"]
NoResponse == [kind |-> "none"]

\* no forecast operation is under way
NoRequestInit ==
    /\ request = NoRequest
    /\ pc = "idle"
    /\ log = <<>>
    /\ response = NoResponse
    /\ run = None
    /\ error = None
    /\ plan = None
    /\ passed_over = {}

InitBacktest ==
    /\ call = NoCall
    /\ ret = None
    /\ cfg \in GridArgs \cup {TestArgs}
    /\ pos = 0
    /\ row = None
    /\ crossed = 0
    /\ degenerate = 0
    /\ bankroll = cfg.starting_bankroll
    /\ settled = <<>>
    /\ result = None
    /\ NoRequestInit

\* no run_backtest is in progress: a pure call c is to be made
InitCall(c) ==
    /\ call = c
    /\ ret = Pending
    /\ cfg = None
    /\ pos = 0
    /\ row = None
    /\ crossed = 0
    /\ degenerate = 0
    /\ bankroll = Zero
    /\ settled = <<>>
    /\ result = None
    /\ NoRequestInit

\* the keyword arguments run_backtest is called with on a whole list
PermutedArgs ==
    { BacktestArgs(Rat(100, 1), Rat(1, 4), RiskConfig(Rat(1, 2), Rat(1, 2), Zero)),
      BacktestArgs(Rat(100, 1), Zero, RiskConfig(Rat(1, 4), One, Zero)),
      BacktestArgs(Rat(100, 1), Rat(1, 2), RiskConfig(One, Rat(2, 1), Zero)) }

\* the i-th row, 0 <= i < 8, of the lists run_backtest is called with as a
\* whole: the forecast 1/RowDen or 1, the lowest or the highest market price
\* of the grid strictly inside (0,1), the outcome 0 or 1
RowAt(i) ==
    BacktestRow(0, "C",
                IF i % 2 = 0 THEN Rat(1, RowDen) ELSE One,
                IF (i \div 2) % 2 = 0 THEN Rat(1, RowDen) ELSE Rat(RowDen - 1, RowDen),
                i \div 4)

RECURSIVE RowLists(_, _)
\* the lists of at most len rows RowAt(i), i >= first, in non-decreasing
\* order of i: one list for every multiset of rows
RowLists(len, first) ==
    IF len = 0 THEN {<<>>}
    ELSE {<<>>} \cup
         UNION {{<<RowAt(i)>> \o rest : rest \in RowLists(len - 1, i)}
                  : i \in first..7}

\* a list of rows as run_backtest is given it: the event ids number the rows
Numbered(rows) == [k \in 1..Len(rows) |-> [rows[k] EXCEPT !.event_id = k]]

Init ==
    \/ InitBacktest
    \/ \E c \in SettlePnlCalls \cup BuildSignalCalls \cup SizeSignalCalls : InitCall(c)
    \/ \E rows \in RowLists(MaxPermuted, 0), args \in PermutedArgs :
           InitCall([fn |-> "run_backtest", rows |-> Numbered(rows), args |-> args])

\* |forecast - market| >= min_edge for row r
Crosses(r) ==
    RGe(RAbs(RSub(r.forecast_probability, r.market_probability)), cfg.min_edge)

\* the market probability of row r is not strictly inside (0,1)
Degenerate(r) ==
    RLe(r.market_probability, Zero) \/ RGe(r.market_probability, One)

\* the mutant of ProcessRow that records the bankroll before the trade's PnL
ProcessRow_stale_after(r) ==
    /\ cfg # None
    /\ result = None
    /\ pos' = pos + 1
    /\ row' = r
    /\ crossed' = IF Crosses(r) THEN crossed + 1 ELSE crossed
    /\ degenerate' = IF Degenerate(r) THEN degenerate + 1 ELSE degenerate
    /\ \E signal \in {build_signal(r.event_id, r.contract_ticker,
                                  r.forecast_probability, r.market_probability,
                                  cfg.min_edge)} :
           IF signal = None
           THEN UNCHANGED <<bankroll, settled>>
           ELSE \E sized \in {size_signal(signal, bankroll, Config)} :
                IF sized = None
                THEN UNCHANGED <<bankroll, settled>>
                ELSE \E pnl \in {settle_pnl(signal.side, r.market_probability,
                                             sized.stake_dollars, r.outcome)} :
                         /\ bankroll' = RAdd(bankroll, pnl)
                         /\ settled' = Append(settled,
                                SettledTrade(r, signal, sized, pnl, bankroll))
    /\ UNCHANGED <<call, ret, cfg, result>>
    /\ UNCHANGED requestVars

\* the mutant of ProcessRow that charges the would-be stake of a row whose
\* sizing was rejected
ProcessRow_charge_skipped(r) ==
    /\ cfg # None
    /\ result = None
    /\ pos' = pos + 1
    /\ row' = r
    /\ crossed' = IF Crosses(r) THEN crossed + 1 ELSE crossed
    /\ degenerate' = IF Degenerate(r) THEN degenerate + 1 ELSE degenerate
    /\ \E signal \in {build_signal(r.event_id, r.contract_ticker,
                                  r.forecast_probability, r.market_probability,
                                  cfg.min_edge)} :
           IF signal = None
           THEN UNCHANGED <<bankroll, settled>>
           ELSE \E sized \in {size_signal(signal, bankroll, Config)} :
                IF sized = None
                THEN /\ bankroll' = RSub(bankroll, Config.max_fraction_per_contract)
                     /\ UNCHANGED settled
                ELSE \E pnl \in {settle_pnl(signal.side, r.market_probability,
                                             sized.stake_dollars, r.outcome)} :
                         /\ bankroll' = RAdd(bankroll, pnl)
                         /\ settled' = Append(settled,
                                SettledTrade(r, signal, sized, pnl, RAdd(bankroll, pnl)))
    /\ UNCHANGED <<call, ret, cfg, result>>
    /\ UNCHANGED requestVars

\* the mutant of ProcessRow that keeps settled newest-first
ProcessRow_newest_first(r) ==
    /\ cfg # None
    /\ result = None
    /\ pos' = pos + 1
    /\ row' = r
    /\ crossed' = IF Crosses(r) THEN crossed + 1 ELSE crossed
    /\ degenerate' = IF Degenerate(r) THEN degenerate + 1 ELSE degenerate
    /\ \E signal \in {build_signal(r.event_id, r.contract_ticker,
                                  r.forecast_probability, r.market_probability,
                                  cfg.min_edge)} :
           IF signal = None
           THEN UNCHANGED <<bankroll, settled>>
           ELSE \E sized \in {size_signal(signal, bankroll, Config)} :
                IF sized = None
                THEN UNCHANGED <<bankroll, settled>>
                ELSE \E pnl \in {settle_pnl(signal.side, r.market_probability,
                                             sized.stake_dollars, r.outcome)} :
                         /\ bankroll' = RAdd(bankroll, pnl)
                         /\ settled' = <<SettledTrade(r, signal, sized, pnl, RAdd(bankroll, pnl))>>
                                            \o settled
    /\ UNCHANGED <<call, ret, cfg, result>>
    /\ UNCHANGED requestVars

\* the mutant of ProcessRow that sizes every trade against the starting bankroll
ProcessRow_starting_bankroll(r) ==
    /\ cfg # None
    /\ result = None
    /\ pos' = pos + 1
    /\ row' = r
    /\ crossed' = IF Crosses(r) THEN crossed + 1 ELSE crossed
    /\ degenerate' = IF Degenerate(r) THEN degenerate + 1 ELSE degenerate
    /\ \E signal \in {build_signal(r.event_id, r.contract_ticker,
                                  r.forecast_probability, r.market_probability,
                                  cfg.min_edge)} :
           IF signal = None
           THEN UNCHANGED <<bankroll, settled, result>>
           ELSE \E sized \in {size_signal(signal, cfg.starting_bankroll, Config)} :
                IF sized = None
                THEN UNCHANGED <<bankroll, settled, result>>
                ELSE \E pnl \in {settle_pnl(signal.side, r.market_probability,
                                             sized.stake_dollars, r.outcome)} :
                         /\ bankroll' = RAdd(bankroll, pnl)
                         /\ settled' = Append(settled,
                                SettledTrade(r, signal, sized, pnl, RAdd(bankroll, pnl)))
                         /\ UNCHANGED result
    /\ UNCHANGED <<call, ret, cfg>>
    /\ UNCHANGED requestVars

\* one iteration of "for row in rows", on the next row r of the list; the
\* locals signal, sized and pnl are bound once each by \E over a singleton.
\* An exception raised by build_signal, size_signal or _settle_pnl leaves
\* run_backtest, which then has the exception for its outcome
ProcessRow(r) ==
    /\ cfg # None
    /\ result = None
    /\ pos' = pos + 1
    /\ row' = r
    /\ crossed' = IF Crosses(r) THEN crossed + 1 ELSE crossed
    /\ degenerate' = IF Degenerate(r) THEN degenerate + 1 ELSE degenerate
    /\ \E signal \in {build_signal(r.event_id, r.contract_ticker,
                                  r.forecast_probability, r.market_probability,
                                  cfg.min_edge)} :
           IF signal = ZeroDivisionError
           THEN /\ result' = signal
                /\ UNCHANGED <<bankroll, settled>>
           ELSE IF signal = None
           THEN UNCHANGED <<bankroll, settled, result>>
           ELSE \E sized \in {size_signal(signal, bankroll, Config)} :
                IF sized = ZeroDivisionError
                THEN /\ result' = sized
                     /\ UNCHANGED <<bankroll, settled>>
                ELSE IF sized = None
                THEN UNCHANGED <<bankroll, settled, result>>
                ELSE \E pnl \in {settle_pnl(signal.side, r.market_probability,
                                             sized.stake_dollars, r.outcome)} :
                         IF pnl = ZeroDivisionError
                         THEN /\ result' = pnl
                              /\ UNCHANGED <<bankroll, settled>>
                         ELSE /\ bankroll' = RAdd(bankroll, pnl)
                              /\ settled' = Append(settled,
                                     SettledTrade(r, signal, sized, pnl, RAdd(bankroll, pnl)))
                              /\ UNCHANGED result
    /\ UNCHANGED <<call, ret, cfg>>
    /\ UNCHANGED requestVars

RECURSIVE RunLoop(_, _, _, _, _)
\* "for row in rows" of run_backtest over the whole list rows, from the
\* bankroll bankroll_ and the trades settled so far: the bankroll and the
\* trades at the end of the loop, or the exception that left it
RunLoop(rows, min_edge, config, bankroll_, trades) ==
    IF rows = <<>> THEN [bankroll |-> bankroll_, settled |-> trades]
    ELSE LET r == Head(rows)
             signal == build_signal(r.event_id, r.contract_ticker,
                                    r.forecast_probability, r.market_probability,
                                    min_edge)
             sized == size_signal(signal, bankroll_, config)
             pnl == settle_pnl(signal.side, r.market_probability,
                               sized.stake_dollars, r.outcome)
         IN  IF signal = ZeroDivisionError THEN signal
             ELSE IF signal = None THEN RunLoop(Tail(rows), min_edge, config, bankroll_, trades)
             ELSE IF sized = ZeroDivisionError THEN sized
             ELSE IF sized = None THEN RunLoop(Tail(rows), min_edge, config, bankroll_, trades)
             ELSE IF pnl = ZeroDivisionError THEN pnl
             ELSE RunLoop(Tail(rows), min_edge, config, RAdd(bankroll_, pnl),
                          Append(trades,
                                 SettledTrade(r, signal, sized, pnl, RAdd(bankroll_, pnl))))

\* run_backtest(rows, **args) as one call: the BacktestResult it returns, or
\* the exception
run_backtest(rows, args) ==
    LET config == IF args.risk_config = None THEN DefaultRiskConfig ELSE args.risk_config
        end == RunLoop(rows, args.min_edge, config, args.starting_bankroll, <<>>)
    IN  IF end = ZeroDivisionError THEN end
        ELSE BacktestResult(args.starting_bankroll, end.bankroll, end.settled)

\* the loop has consumed the whole list: compute the aggregates and return
Finish ==
    /\ cfg # None
    /\ result = None
    /\ result' = BacktestResult(cfg.starting_bankroll, bankroll, settled)
    /\ UNCHANGED <<call, ret, cfg, pos, row, crossed, degenerate, bankroll, settled>>
    /\ UNCHANGED requestVars

CallSettlePnl ==
    /\ ret = Pending
    /\ call.fn = "settle_pnl"
    /\ ret' = settle_pnl(call.side, call.price_yes, call.stake, call.outcome)
    /\ UNCHANGED <<call, cfg, pos, row, crossed, degenerate, bankroll, settled, result>>
    /\ UNCHANGED requestVars

CallBuildSignal ==
    /\ ret = Pending
    /\ call.fn = "build_signal"
    /\ ret' = build_signal("evt", "C", call.forecast_probability,
                           call.market_probability, call.min_edge)
    /\ UNCHANGED <<call, cfg, pos, row, crossed, degenerate, bankroll, settled, result>>
    /\ UNCHANGED requestVars

CallSizeSignal ==
    /\ ret = Pending
    /\ call.fn = "size_signal"
    /\ ret' = size_signal(call.signal, call.bankroll, call.config)
    /\ UNCHANGED <<call, cfg, pos, row, crossed, degenerate, bankroll, settled, result>>
    /\ UNCHANGED requestVars

CallRunBacktest ==
    /\ ret = Pending
    /\ call.fn = "run_backtest"
    /\ ret' = run_backtest(call.rows, call.args)
    /\ UNCHANGED <<call, cfg, pos, row, crossed, degenerate, bankroll, settled, result>>
    /\ UNCHANGED requestVars

Next ==
    \/ \E r \in (IF cfg = None THEN {} ELSE NextRows) : ProcessRow(r)
    \/ Finish
    \/ CallSettlePnl
    \/ CallBuildSignal
    \/ CallSizeSignal
    \/ CallRunBacktest

Spec == Init /\ [][Next]_vars

-----------------------------------------------------------------------------
(* SpecPure: build_signal and size_signal, each applied once to arguments  *)
(* drawn in the initial state.                                             *)

InitPure == \E c \in BuildSignalCalls \cup SizeSignalCalls : InitCall(c)

NextPure == CallBuildSignal \/ CallSizeSignal

SpecPure == InitPure /\ [][NextPure]_vars

-----------------------------------------------------------------------------
(* SpecRequest: find_latest_run, alone or as the first call of             *)
(* compute_temperature_event_probability / compute_precip_event_probability,*)
(* against a network that answers each request as it likes.                *)

\* the metadata (.dds) bodies a candidate may answer with
DdsTexts ==
    { <<Opener, Decl(tmp2m), Decl(apcpsfc), Other("} gefs;")>>,
      <<Ws("\n"), Ws(" "), Opener, Decl(tmp2m), Decl(prate), Other("} gefs;")>>,
      <<Other("<html>"), Opener, Other("</html>")>>,
      <<>> }

\* a time-axis (.ascii?time) body: the header line, then one number per
\* timestep; Step(day) is a number whose local date is before, on or after
\* the target date
Header == Other("time, [65]")
Step(day) == [tok |-> "number", local_date |-> day]
TimeTexts ==
    { <<>>,
      <<Header, Other("no number")>>,
      <<Header, Step("before"), Step("after")>>,
      <<Header, Step("target"), Step("target")>>,
      <<Header, Step("before"), Step("target"), Step("target"), Step("after")>> }

\* A field body is a sequence of lines: the line of the dimensions
\* ("name, [E][T][1][1]"), a data line ("[i][j][0][0], value": bracketed
\* indices, a comma, a number) or any other line.
Dims(dims) == [tok |-> "dimensions", dims |-> dims]
Cell(indices, value) == [tok |-> "cell", indices |-> indices, value |-> value]
FieldTexts ==
    { <<>>,
      <<Other("<html>")>>,
      <<Dims(<<2, 3, 1, 1>>), Cell(<<1, 0, 0, 0>>, FILL_VALUE)>>,
      <<Dims(<<2, 3, 1, 1>>),
        Cell(<<0, 0, 0, 0>>, Rat(300, 1)), Cell(<<0, 1, 0, 0>>, Rat(305, 1)),
        Cell(<<0, 2, 0, 0>>, Rat(305, 1)), Cell(<<1, 0, 0, 0>>, Rat(300, 1)),
        Cell(<<1, 1, 0, 0>>, Rat(300, 1)), Cell(<<1, 2, 0, 0>>, Rat(301, 1))>> }

HttpOutcomes(texts) == {Raises(e) : e \in HttpExceptions} \cup {Text(t) : t \in texts}

RequestLats == {Rat(-91, 1), Rat(407128, 10000), Rat(91, 1)}

Requests ==
    { [op |-> "find_latest_run", lookback_days |-> d] : d \in 0..MaxLookback }
    \cup
    \* TemperatureEventRequest and PrecipEventRequest with the default
    \* longitude and threshold (85 F, 0.1 in)
    { [op |-> o, lat |-> lat, lon |-> Rat(-74006, 1000),
       threshold |-> IF o = "temperature" THEN Rat(85, 1) ELSE Rat(1, 10),
       timezone_known |-> tz, lookback_days |-> d]
        : o \in {"temperature", "precip"}, lat \in RequestLats, tz \in BOOLEAN,
          d \in 0..MaxLookback }

InitRequest ==
    /\ call = NoCall
    /\ ret = None
    /\ cfg = None
    /\ pos = 0
    /\ row = None
    /\ crossed = 0
    /\ degenerate = 0
    /\ bankroll = Zero
    /\ settled = <<>>
    /\ result = None
    /\ request \in Requests
    /\ pc = IF request.op = "find_latest_run" THEN "find_latest_run" ELSE "ZoneInfo"
    /\ log = <<>>
    /\ response = NoResponse
    /\ run = None
    /\ error = None
    /\ plan = None
    /\ passed_over = {}

IsNumber(token) == token.tok = "number"
\* parse_ascii_vector: the numbers after the first line
parse_ascii_vector(text) ==
    IF Len(text) < 2 THEN ValueError("Unexpected OPeNDAP ASCII vector response.")
    ELSE Returns(SelectSeq(Tail(text), IsNumber))

\* re.findall(r"\[(\d+)\]", line): the bracketed numbers of a line
BracketNumbers(line) ==
    IF line.tok = "dimensions" THEN line.dims
    ELSE IF line.tok = "cell" THEN line.indices
    ELSE <<>>

\* the mutant of StoreLine that keeps the first value a cell is given
StoreLine_first_wins(matrix, line, ensemble_count, time_count) ==
    IF line.tok # "cell" THEN matrix
    ELSE IF Len(line.indices) < 2 THEN matrix
    ELSE IF line.indices[1] >= ensemble_count \/ line.indices[2] >= time_count THEN matrix
    ELSE IF matrix[line.indices[1] + 1][line.indices[2] + 1] # NaN THEN matrix
    ELSE [matrix EXCEPT ![line.indices[1] + 1][line.indices[2] + 1] = line.value]

\* the body of "for line in lines[1:]": the matrix after the line
StoreLine(matrix, line, ensemble_count, time_count) ==
    IF line.tok # "cell" THEN matrix
    ELSE IF Len(line.indices) < 2 THEN matrix
    ELSE IF line.indices[1] >= ensemble_count \/ line.indices[2] >= time_count THEN matrix
    ELSE [matrix EXCEPT ![line.indices[1] + 1][line.indices[2] + 1] = line.value]

RECURSIVE StoreLines(_, _, _, _)
StoreLines(matrix, lines, ensemble_count, time_count) ==
    IF lines = <<>> THEN matrix
    ELSE StoreLines(StoreLine(matrix, Head(lines), ensemble_count, time_count),
                    Tail(lines), ensemble_count, time_count)

parse_member_time_matrix(text) ==
    IF text = <<>> THEN ValueError("Empty OPeNDAP response.")
    ELSE LET dims == BracketNumbers(Head(text))
         IN  IF Len(dims) < 2
             THEN ValueError("Could not read matrix dimensions from OPeNDAP response.")
             ELSE Returns(StoreLines([i \in 1..dims[1] |-> [j \in 1..dims[2] |-> NaN]],
                                     Tail(text), dims[1], dims[2]))

\* local_tz = ZoneInfo(request.timezone_name), the first statement of both
\* compute_* operations, then the call of find_latest_run
EnterCompute ==
    /\ pc = "ZoneInfo"
    /\ IF request.timezone_known
       THEN pc' = "find_latest_run" /\ UNCHANGED error
       ELSE pc' = "raised" /\ error' = Raises("ZoneInfoNotFoundError")
    /\ UNCHANGED <<request, log, response, run, plan, passed_over>>
    /\ UNCHANGED pipelineVars

IsProbe(entry) == entry.url = "probe"
\* the candidates probed so far, in order
Probes == SelectSeq(log, IsProbe)

\* One iteration of find_latest_run's nested loops: the next candidate's
\* metadata is requested and answered by o.  After the last candidate the
\* loops are left and RuntimeError is raised.  A return hands the run to the
\* caller: to the user, or to compute_*, whose next call is nearest_grid_indices.
Probe(o) ==
    /\ pc = "find_latest_run"
    /\ Len(Probes) < CandidateCount(request.lookback_days)
    /\ \E k \in {Len(Probes) + 1} : \E candidate \in {Candidate(k)} :
          /\ log' = Append(log, [url |-> "probe",
                                  day_offset |-> candidate.day_offset,
                                  cycle_hour |-> candidate.cycle_hour])
          /\ response' = o
          /\ IF o.kind # "text" /\ o.kind \notin CaughtByScan
             THEN /\ error' = o
                  /\ pc' = "raised"
                  /\ UNCHANGED <<run, passed_over>>
             ELSE IF o.kind = "text" /\ startswith(lstrip(o.text), Opener)
             THEN /\ run' = GEFSRun(candidate.day_offset, candidate.cycle_hour)
                  /\ pc' = IF request.op = "find_latest_run"
                           THEN "returned" ELSE "nearest_grid_indices"
                  /\ UNCHANGED <<error, passed_over>>
             ELSE /\ passed_over' = IF o.kind = "text"
                                    THEN passed_over \cup {o.text} ELSE passed_over
                  /\ IF k = CandidateCount(request.lookback_days)
                     THEN /\ error' = RuntimeError("Could not find a recent GEFS dataset on NOMADS.")
                          /\ pc' = "raised"
                     ELSE UNCHANGED <<error, pc>>
                  /\ UNCHANGED run
    /\ UNCHANGED <<request, plan>>
    /\ UNCHANGED pipelineVars

\* lat_idx, lon_idx = nearest_grid_indices(request.lat, request.lon)
GridLookup ==
    /\ pc = "nearest_grid_indices"
    /\ \E indices \in {nearest_grid_indices(request.lat, request.lon)} :
          IF IsError(indices)
          THEN pc' = "raised" /\ error' = indices
          ELSE pc' = "time" /\ UNCHANGED error
    /\ UNCHANGED <<request, log, response, run, plan, passed_over>>
    /\ UNCHANGED pipelineVars

\* time_text = http_get_text(...ascii?time) up to time_start, time_end;
\* any exception of the request leaves compute_*
TimeRequest(o) ==
    /\ pc = "time"
    /\ log' = Append(log, [url |-> "time"])
    /\ response' = o
    /\ IF o.kind # "text"
       THEN pc' = "raised" /\ error' = o /\ UNCHANGED plan
       ELSE \E parsed \in {parse_ascii_vector(o.text)} :
            IF IsError(parsed)
            THEN pc' = "raised" /\ error' = parsed /\ UNCHANGED plan
            ELSE \E time_axis \in {parsed.returns} :
            IF time_axis = <<>>
            THEN /\ pc' = "raised"
                 /\ error' = RuntimeError("No time values returned by GEFS dataset.")
                 /\ UNCHANGED plan
            ELSE \E target_indices \in {{i - 1 : i \in {j \in 1..Len(time_axis) :
                                                       time_axis[j].local_date = "target"}}} :
                 IF target_indices = {}
                 THEN /\ pc' = "raised"
                      /\ error' = RuntimeError("No GEFS timesteps available for local date.")
                      /\ UNCHANGED plan
                 ELSE /\ plan' = [time_start |-> CHOOSE i \in target_indices :
                                                    \A j \in target_indices : i <= j,
                                   time_end |-> CHOOSE i \in target_indices :
                                                    \A j \in target_indices : j <= i,
                                   variable |-> IF request.op = "temperature" THEN tmp2m ELSE <<>>]
                      /\ pc' = IF request.op = "precip" THEN "dds" ELSE "field"
                      /\ UNCHANGED error
    /\ UNCHANGED <<request, run, passed_over>>
    /\ UNCHANGED pipelineVars

\* the mutant of DdsRequest that goes on to the field request when the
\* request raises
DdsRequest_swallow(o) ==
    /\ pc = "dds"
    /\ log' = Append(log, [url |-> "dds"])
    /\ response' = o
    /\ IF o.kind # "text"
       THEN pc' = "field" /\ plan' = [plan EXCEPT !.variable = apcpsfc] /\ UNCHANGED error
       ELSE \E precip_var \in {find_precip_variable(o.text)} :
            IF IsError(precip_var)
            THEN pc' = "raised" /\ error' = precip_var /\ UNCHANGED plan
            ELSE /\ plan' = [plan EXCEPT !.variable = precip_var.returns]
                 /\ pc' = "field"
                 /\ UNCHANGED error
    /\ UNCHANGED <<request, run, passed_over>>
    /\ UNCHANGED pipelineVars

\* dds_text = http_get_text(...dds); precip_var = find_precip_variable(dds_text)
DdsRequest(o) ==
    /\ pc = "dds"
    /\ log' = Append(log, [url |-> "dds"])
    /\ response' = o
    /\ IF o.kind # "text"
       THEN pc' = "raised" /\ error' = o /\ UNCHANGED plan
       ELSE \E precip_var \in {find_precip_variable(o.text)} :
            IF IsError(precip_var)
            THEN pc' = "raised" /\ error' = precip_var /\ UNCHANGED plan
            ELSE /\ plan' = [plan EXCEPT !.variable = precip_var.returns]
                 /\ pc' = "field"
                 /\ UNCHANGED error
    /\ UNCHANGED <<request, run, passed_over>>
    /\ UNCHANGED pipelineVars

\* what compute_* returns
ForecastSnapshot(run_, ensemble) ==
    [kind |-> "ForecastSnapshot", model |-> "NOAA_GEFS", run |-> run_,
     probability |-> ensemble.probability,
     runs_exceeding_threshold |-> ensemble.runs_exceeding,
     total_runs |-> ensemble.total_runs]

\* field_text = http_get_text(field_url) to the end of compute_*
FieldRequest(o) ==
    /\ pc = "field"
    /\ \E fetch_start \in {IF request.op = "precip"
                             THEN FetchStart(plan.time_start) ELSE plan.time_start} :
          /\ log' = Append(log, [url |-> "field", variable |-> plan.variable,
                                  first |-> fetch_start, last |-> plan.time_end])
          /\ response' = o
          /\ IF o.kind # "text"
             THEN pc' = "raised" /\ error' = o /\ UNCHANGED ret
             ELSE \E parsed \in {parse_member_time_matrix(o.text)} :
                  IF IsError(parsed)
                  THEN pc' = "raised" /\ error' = parsed /\ UNCHANGED ret
                  ELSE \E matrix \in {parsed.returns} :
                       \E ensemble \in {IF request.op = "temperature"
                                         THEN temperature_probability(matrix, request.threshold)
                                         ELSE precip_probability(matrix,
                                                  WindowOffset(plan.time_start),
                                                  request.threshold)} :
                       IF IsError(ensemble)
                       THEN pc' = "raised" /\ error' = ensemble /\ UNCHANGED ret
                       ELSE /\ pc' = "returned"
                            /\ ret' = ForecastSnapshot(run, ensemble)
                            /\ UNCHANGED error
    /\ UNCHANGED <<request, run, plan, passed_over>>
    /\ UNCHANGED <<call, cfg, pos, row, crossed, degenerate, bankroll, settled, result>>

NextRequest ==
    \/ EnterCompute
    \/ \E o \in HttpOutcomes(DdsTexts) : Probe(o)
    \/ GridLookup
    \/ \E o \in HttpOutcomes(TimeTexts) : TimeRequest(o)
    \/ \E o \in HttpOutcomes(DdsTexts) : DdsRequest(o)
    \/ \E o \in HttpOutcomes(FieldTexts) : FieldRequest(o)

SpecRequest == InitRequest /\ [][NextRequest]_vars

-----------------------------------------------------------------------------
(* SpecForecast: the pure functions of zephyr/forecast/gefs.py, each       *)
(* applied once to arguments drawn in the initial state.                   *)

\* every matrix of members x timesteps with at most MaxCells cells, rows of
\* equal length, cells from the given set
Matrices(cells) ==
    UNION { [1..members -> [1..timesteps -> cells]]
              : <<members, timesteps>> \in
                  {shape \in (0..MaxCells) \X (0..MaxCells) : shape[1] * shape[2] <= MaxCells} }

\* 2 m temperatures in K around the threshold 85 F = 302.594... K
KelvinCells == {NaN, FILL_VALUE, Rat(300, 1), fahrenheit_to_kelvin(Rat(85, 1)), Rat(305, 1)}
\* precipitation in mm around the threshold 5/127 in = 1 mm
MillimetreCells == {NaN, FILL_VALUE, Zero, One, Rat(2, 1)}
\* accumulations in mm that differ by the classifier's tolerance 1e-6 and by
\* twice the tolerance
ToleranceCells ==
    {NaN, FILL_VALUE, One, RSub(One, Rat(1, 1000000)), RSub(One, Rat(2, 1000000))}

LatSamples ==
    {RAdd(Rat(base, 1), Rat(k, CoordDen)) : base \in {-90, 0, 90}, k \in (-CoordDen)..CoordDen}
LonSamples ==
    {RAdd(Rat(base, 1), Rat(k, CoordDen))
        : base \in {-360, -180, 0, 180, 360}, k \in (-CoordDen)..CoordDen}

VariableNames == {apcpsfc, APCPsfc, apcp, Apcp6, Precip, prate, tmp2m}

\* the lines of the field responses parsed on their own: dimension lines
\* (two dimensions, or one), data lines inside and outside a 1 x 2 matrix,
\* with one index only, and a line that is neither
FieldLines ==
    { Dims(<<1, 2>>), Dims(<<2, 2>>), Dims(<<2>>),
      Cell(<<0, 0>>, One), Cell(<<0, 0>>, Rat(2, 1)), Cell(<<0, 1>>, FILL_VALUE),
      Cell(<<1, 0>>, One), Cell(<<0, 2>>, One), Cell(<<0>>, One),
      Other("garbage") }
RECURSIVE FieldLineTexts(_)
\* the texts of at most len such lines
FieldLineTexts(len) ==
    IF len = 0 THEN {<<>>}
    ELSE FieldLineTexts(len - 1)
         \cup {Append(text, line) : text \in FieldLineTexts(len - 1), line \in FieldLines}

RECURSIVE NameLists(_)
\* the lists of at most len variable names
NameLists(len) ==
    IF len = 0 THEN {<<>>}
    ELSE NameLists(len - 1)
         \cup {Append(names, name) : names \in NameLists(len - 1), name \in VariableNames}

\* the DDS text declaring the names in the given order
DdsOf(names) ==
    <<Ws("\n"), Opener>> \o [i \in 1..Len(names) |-> Decl(names[i])] \o <<Other("} gefs;")>>

\* no run_backtest and no request is in progress: one pure function of the
\* forecast is to be called, on arguments drawn from the sets above
InitForecast ==
    \/ \E matrix \in Matrices(KelvinCells) :
          InitCall([fn |-> "temperature_probability", matrix |-> matrix,
                    threshold_f |-> Rat(85, 1)])
    \/ \E matrix \in Matrices(MillimetreCells), first \in {0, 1, 2} :
          InitCall([fn |-> "precip_probability", matrix |-> matrix, time_start |-> first,
                    threshold_in |-> Rat(5, 127)])
    \/ \E matrix \in Matrices(ToleranceCells) :
          InitCall([fn |-> "is_cumulative_matrix", matrix |-> matrix])
    \/ \E lat \in LatSamples, lon \in LonSamples :
          InitCall([fn |-> "nearest_grid_indices", lat |-> lat, lon |-> lon])
    \/ \E names \in NameLists(MaxDeclared) :
          InitCall([fn |-> "find_precip_variable", declared |-> names,
                    dds_text |-> DdsOf(names)])
    \/ \E text \in FieldLineTexts(MaxLines) :
          InitCall([fn |-> "parse_member_time_matrix", text |-> text])

CallTemperatureProbability ==
    /\ ret = Pending
    /\ call.fn = "temperature_probability"
    /\ ret' = temperature_probability(call.matrix, call.threshold_f)
    /\ UNCHANGED <<call, cfg, pos, row, crossed, degenerate, bankroll, settled, result>>
    /\ UNCHANGED requestVars

\* compute_precip_event_probability from time_start on, the field request
\* answered by the call's matrix: the call keeps the locals fetch_start and
\* window_offset
CallPrecipProbability ==
    /\ ret = Pending
    /\ call.fn = "precip_probability"
    /\ call' = [fn |-> "precip_probability", matrix |-> call.matrix,
                time_start |-> call.time_start, threshold_in |-> call.threshold_in,
                fetch_start |-> FetchStart(call.time_start),
                window_offset |-> WindowOffset(call.time_start)]
    /\ ret' = precip_probability(call.matrix, WindowOffset(call.time_start),
                                 call.threshold_in)
    /\ UNCHANGED <<cfg, pos, row, crossed, degenerate, bankroll, settled, result>>
    /\ UNCHANGED requestVars

CallIsCumulativeMatrix ==
    /\ ret = Pending
    /\ call.fn = "is_cumulative_matrix"
    /\ ret' = Returns(is_cumulative_matrix(call.matrix))
    /\ UNCHANGED <<call, cfg, pos, row, crossed, degenerate, bankroll, settled, result>>
    /\ UNCHANGED requestVars

CallNearestGridIndices ==
    /\ ret = Pending
    /\ call.fn = "nearest_grid_indices"
    /\ ret' = nearest_grid_indices(call.lat, call.lon)
    /\ UNCHANGED <<call, cfg, pos, row, crossed, degenerate, bankroll, settled, result>>
    /\ UNCHANGED requestVars

\* the indices nearest_grid_indices returned go to grid_coords_from_indices,
\* as in compute_*: the call keeps the requested coordinates for comparison
CallGridCoordsFromIndices ==
    /\ call.fn = "nearest_grid_indices"
    /\ ret # Pending
    /\ ~IsError(ret)
    /\ call' = [fn |-> "grid_coords_from_indices",
                lat_idx |-> ret.lat_idx, lon_idx |-> ret.lon_idx,
                requested_lat |-> call.lat, requested_lon |-> call.lon]
    /\ ret' = grid_coords_from_indices(ret.lat_idx, ret.lon_idx)
    /\ UNCHANGED <<cfg, pos, row, crossed, degenerate, bankroll, settled, result>>
    /\ UNCHANGED requestVars

CallFindPrecipVariable ==
    /\ ret = Pending
    /\ call.fn = "find_precip_variable"
    /\ ret' = find_precip_variable(call.dds_text)
    /\ UNCHANGED <<call, cfg, pos, row, crossed, degenerate, bankroll, settled, result>>
    /\ UNCHANGED requestVars

CallParseMemberTimeMatrix ==
    /\ ret = Pending
    /\ call.fn = "parse_member_time_matrix"
    /\ ret' = parse_member_time_matrix(call.text)
    /\ UNCHANGED <<call, cfg, pos, row, crossed, degenerate, bankroll, settled, result>>
    /\ UNCHANGED requestVars

NextForecast ==
    \/ CallTemperatureProbability
    \/ CallPrecipProbability
    \/ CallIsCumulativeMatrix
    \/ CallNearestGridIndices
    \/ CallGridCoordsFromIndices
    \/ CallFindPrecipVariable
    \/ CallParseMemberTimeMatrix

SpecForecast == InitForecast /\ [][NextForecast]_vars

-----------------------------------------------------------------------------
(* Claims about build_signal and size_signal (checked under SpecPure).     *)

InUnit(p) == RGt(p, Zero) /\ RLt(p, One)
BuildSignalReturned == call.fn = "build_signal" /\ ret # Pending
SizeSignalReturned == call.fn = "size_signal" /\ ret # Pending

\* C1: for a market probability m strictly inside (0,1) and min_edge > 0,
\* build_signal returns a buy_yes Signal when f - m >= min_edge, a buy_no
\* Signal when f - m <= -min_edge and None when |f - m| < min_edge, and the
\* Signal's edge is f - m.
C1_SideFollowsEdge ==
    (BuildSignalReturned /\ InUnit(call.market_probability) /\ RGt(call.min_edge, Zero)) =>
        LET e == RSub(call.forecast_probability, call.market_probability) IN
        /\ RGe(e, call.min_edge) =>
              (ret.kind = "Signal" /\ ret.side = "buy_yes" /\ ret.edge = e)
        /\ RLe(e, RNeg(call.min_edge)) =>
              (ret.kind = "Signal" /\ ret.side = "buy_no" /\ ret.edge = e)
        /\ RLt(RAbs(e), call.min_edge) => ret = None

\* C1 witness: a buy_no Signal returned for an edge exactly at -min_edge.
C1_Witness ==
    /\ BuildSignalReturned
    /\ InUnit(call.market_probability)
    /\ RGt(call.min_edge, Zero)
    /\ RSub(call.forecast_probability, call.market_probability) = RNeg(call.min_edge)
    /\ ret.kind = "Signal"
    /\ ret.side = "buy_no"

\* C2: every Signal build_signal returns, for any inputs, has
\* |edge| >= min_edge and expected_value_per_dollar > 0, the expected value
\* being f/m - 1 for buy_yes and (1 - f)/(1 - m) - 1 for buy_no.
C2_SignalHasEdgeAndValue ==
    (BuildSignalReturned /\ ret.kind = "Signal") =>
        /\ RGe(RAbs(ret.edge), call.min_edge)
        /\ RGt(ret.expected_value_per_dollar, Zero)
        /\ ret.side \in {"buy_yes", "buy_no"}
        /\ ret.side = "buy_yes" =>
              /\ call.market_probability.n # 0
              /\ ret.expected_value_per_dollar =
                    RSub(RDiv(call.forecast_probability, call.market_probability), One)
        /\ ret.side = "buy_no" =>
              /\ call.market_probability # One
              /\ ret.expected_value_per_dollar =
                    RSub(RDiv(RSub(One, call.forecast_probability),
                              RSub(One, call.market_probability)), One)

\* C2 witness: a Signal returned although min_edge is negative.
C2_Witness ==
    /\ BuildSignalReturned
    /\ ret.kind = "Signal"
    /\ RLt(call.min_edge, Zero)
    /\ ret.side = "buy_yes"

\* C3: every SizedSignal size_signal returns has fraction_of_bankroll <=
\* max_fraction_per_contract, stake_dollars = bankroll * fraction_of_bankroll
\* and stake_dollars > 0, for any signal, bankroll and kelly_scale.
C3_FractionCapped ==
    (SizeSignalReturned /\ ret.kind = "SizedSignal") =>
        /\ RLe(ret.fraction_of_bankroll, call.config.max_fraction_per_contract)
        /\ ret.stake_dollars = RMul(call.bankroll, ret.fraction_of_bankroll)
        /\ RGt(ret.stake_dollars, Zero)

\* C3 witness: a SizedSignal at the cap under kelly_scale > 1.
C3_Witness ==
    /\ SizeSignalReturned
    /\ ret.kind = "SizedSignal"
    /\ RGt(call.config.kelly_scale, One)
    /\ ret.fraction_of_bankroll = call.config.max_fraction_per_contract

\* the raw Kelly fraction as the claims state it
RawKelly(side, f, p) ==
    IF RLe(p, Zero) \/ RGe(p, One) THEN Zero
    ELSE IF side = "buy_yes" THEN RMax(Zero, RDiv(RSub(f, p), RSub(One, p)))
    ELSE IF side = "buy_no" THEN RMax(Zero, RDiv(RSub(p, f), p))
    ELSE Zero

\* min(max_fraction_per_contract, kelly_scale * rawKelly) of the call under examination
BoundedFraction ==
    RMin(call.config.max_fraction_per_contract,
         RMul(call.config.kelly_scale,
              RawKelly(call.signal.side, call.signal.forecast_probability,
                       call.signal.market_probability)))

\* C4: size_signal returns None if and only if bankroll <= 0, or the side is
\* neither buy_yes nor buy_no, or the bounded fraction is below
\* min_fraction_if_trade, or bankroll * bounded fraction <= 0; otherwise it
\* returns a SizedSignal carrying exactly the bounded fraction.
C4_NoneIffRejected ==
    SizeSignalReturned =>
        LET rejected ==
                \/ RLe(call.bankroll, Zero)
                \/ call.signal.side \notin {"buy_yes", "buy_no"}
                \/ RLt(BoundedFraction, call.config.min_fraction_if_trade)
                \/ RLe(RMul(call.bankroll, BoundedFraction), Zero)
        IN  /\ (ret = None) <=> rejected
            /\ ~rejected =>
                  /\ ret.kind = "SizedSignal"
                  /\ ret.fraction_of_bankroll = BoundedFraction
                  /\ ret.signal = call.signal

\* C4 witness: a rejection by the min_fraction_if_trade floor alone.
C4_Witness ==
    /\ SizeSignalReturned
    /\ ret = None
    /\ RGt(call.bankroll, Zero)
    /\ call.signal.side \in {"buy_yes", "buy_no"}
    /\ RGt(BoundedFraction, Zero)
    /\ RLt(BoundedFraction, call.config.min_fraction_if_trade)

\* C5: whenever bankroll > 0, max_fraction_per_contract > 0,
\* min_fraction_if_trade <= max_fraction_per_contract and kelly_scale *
\* rawKelly >= max_fraction_per_contract, size_signal returns a SizedSignal
\* with fraction exactly the cap and stake exactly bankroll * cap.
C5_CapBinds ==
    (/\ SizeSignalReturned
     /\ RGt(call.bankroll, Zero)
     /\ RGt(call.config.max_fraction_per_contract, Zero)
     /\ RLe(call.config.min_fraction_if_trade, call.config.max_fraction_per_contract)
     /\ RGe(RMul(call.config.kelly_scale,
                 RawKelly(call.signal.side, call.signal.forecast_probability,
                          call.signal.market_probability)),
            call.config.max_fraction_per_contract)) =>
        /\ ret.kind = "SizedSignal"
        /\ ret.fraction_of_bankroll = call.config.max_fraction_per_contract
        /\ ret.stake_dollars = RMul(call.bankroll, call.config.max_fraction_per_contract)

\* C5 witness: the test's call (forecast 0.80, market 0.50, kelly_scale 1.0,
\* cap 0.03, bankroll 10000) returned fraction 0.03 and stake 300.
C5_Witness ==
    /\ SizeSignalReturned
    /\ call.bankroll = Rat(10000, 1)
    /\ call.signal.forecast_probability = Rat(80, 100)
    /\ call.signal.market_probability = Rat(50, 100)
    /\ call.config = RiskConfig(Rat(3, 100), One, Zero)
    /\ ret.kind = "SizedSignal"
    /\ ret.fraction_of_bankroll = Rat(3, 100)
    /\ ret.stake_dollars = Rat(300, 1)

-----------------------------------------------------------------------------
(* Claims about run_backtest and _settle_pnl (checked under Spec).         *)

Running == cfg # None
Returned == cfg # None /\ result # None
LastBankrollAfter ==
    IF settled = <<>> THEN cfg.starting_bankroll ELSE settled[Len(settled)].bankroll_after

\* C6: with starting_bankroll > 0, min_edge > 0, kelly_scale > 0,
\* 0 < max_fraction_per_contract < 1, min_fraction_if_trade = 0 and every
\* row's market probability strictly inside (0,1), the number of settled
\* trades is the number of rows with |forecast - market| >= min_edge; the
\* test's three rows give 2 trades, ending bankroll > starting, win rate > 0.
C6_TradesAreCrossingRows ==
    /\ (/\ Running
        /\ RGt(cfg.starting_bankroll, Zero)
        /\ RGt(cfg.min_edge, Zero)
        /\ RGt(Config.kelly_scale, Zero)
        /\ RGt(Config.max_fraction_per_contract, Zero)
        /\ RLt(Config.max_fraction_per_contract, One)
        /\ Config.min_fraction_if_trade = Zero
        /\ degenerate = 0) =>
            /\ Len(settled) = crossed
            /\ result # None => result.total_trades = crossed
    /\ (cfg = TestArgs /\ result # None /\ pos = Len(TestRows)) =>
            /\ result.total_trades = 2
            /\ RGt(result.ending_bankroll, Rat(10000, 1))
            /\ RGt(result.win_rate, Zero)

\* C6 witness: the test's scenario has run to its end: three rows, two of
\* them crossing the threshold, two trades.
C6_Witness ==
    /\ cfg = TestArgs
    /\ result # None
    /\ pos = 3
    /\ crossed = 2
    /\ degenerate = 0
    /\ result.total_trades = 2

\* the payout rule as the claim states it, for outcome 0 or 1
Payout(side, p, s, outcome) ==
    IF side = "buy_yes"
    THEN IF outcome = 1 THEN RMul(s, RSub(RDiv(One, p), One)) ELSE RNeg(s)
    ELSE IF outcome = 0 THEN RMul(s, RSub(RDiv(One, RSub(One, p)), One)) ELSE RNeg(s)

\* C7: every settled trade's PnL follows the side-specific payout rule (its
\* four cases are the outcomes 0 and 1 of either side) at the row's market
\* price p (0 < p < 1) and stake s > 0, so a loss never exceeds the stake;
\* _settle_pnl returns 0 whenever p <= 0, p >= 1 or s <= 0.
C7_PayoutRule ==
    /\ Running =>
          \A k \in 1..Len(settled) :
              LET t == settled[k] IN
              /\ InUnit(t.market_probability)
              /\ RGt(t.stake_dollars, Zero)
              /\ t.side \in {"buy_yes", "buy_no"}
              /\ t.outcome \in {0, 1} =>
                    t.pnl_dollars =
                        Payout(t.side, t.market_probability, t.stake_dollars, t.outcome)
              /\ RGe(t.pnl_dollars, RNeg(t.stake_dollars))
    /\ (call.fn = "settle_pnl" /\ ret # Pending) =>
          /\ (~InUnit(call.price_yes) \/ RLe(call.stake, Zero)) => ret = Zero
          /\ (/\ InUnit(call.price_yes)
              /\ RGt(call.stake, Zero)
              /\ call.side \in {"buy_yes", "buy_no"}
              /\ call.outcome \in {0, 1}) =>
                  /\ ret = Payout(call.side, call.price_yes, call.stake, call.outcome)
                  /\ RGe(ret, RNeg(call.stake))

\* C7 witness: a winning buy_yes trade followed by a losing buy_no trade.
C7_Witness ==
    /\ Running
    /\ Len(settled) = 2
    /\ settled[1].side = "buy_yes"
    /\ RGt(settled[1].pnl_dollars, Zero)
    /\ settled[2].side = "buy_no"
    /\ settled[2].pnl_dollars = RNeg(settled[2].stake_dollars)

\* C8: a row for which build_signal or size_signal returns None leaves the
\* bankroll and the settled trades unchanged, and the loop goes on.
C8_SkipChangesNothing ==
    [][(Running /\ pos' = pos + 1) =>
        LET signal == build_signal(row'.event_id, row'.contract_ticker,
                                   row'.forecast_probability, row'.market_probability,
                                   cfg.min_edge)
            skipped == IF signal = None THEN TRUE
                       ELSE size_signal(signal, bankroll, Config) = None
        IN  skipped => (bankroll' = bankroll /\ settled' = settled /\ result' = None)]_vars

\* C8 witness: after one settled trade, the second row crossed the edge
\* threshold at a valid price and was skipped by the sizer.
C8_Witness ==
    /\ Running
    /\ pos = 2
    /\ Len(settled) = 1
    /\ settled[1].event_id = 1
    /\ row.event_id = 2
    /\ Crosses(row)
    /\ ~Degenerate(row)
    /\ bankroll = settled[1].bankroll_after
    /\ result = None

RECURSIVE SumPnl(_)
\* the sum of the pnl_dollars of a list of trades
SumPnl(trades) ==
    IF trades = <<>> THEN Zero
    ELSE RAdd(SumPnl(Tail(trades)), Head(trades).pnl_dollars)

\* C9: each trade's bankroll_after is the previous trade's bankroll_after
\* (starting_bankroll for the first) plus its pnl_dollars; ending_bankroll is
\* the last bankroll_after (starting_bankroll without trades) and equals
\* starting_bankroll plus the sum of all pnl_dollars; total_pnl is
\* ending - starting; return_pct is ending/starting - 1 when starting > 0.
C9_BankrollAccounting ==
    Running =>
        /\ \A k \in 1..Len(settled) :
              settled[k].bankroll_after =
                  RAdd(IF k = 1 THEN cfg.starting_bankroll ELSE settled[k - 1].bankroll_after,
                       settled[k].pnl_dollars)
        /\ bankroll = LastBankrollAfter
        /\ result # None =>
              /\ result.trades = settled
              /\ result.ending_bankroll = LastBankrollAfter
              /\ result.ending_bankroll =
                    RAdd(cfg.starting_bankroll, SumPnl(settled))
              /\ result.total_pnl = RSub(result.ending_bankroll, cfg.starting_bankroll)
              /\ RGt(cfg.starting_bankroll, Zero) =>
                    result.return_pct =
                        RSub(RDiv(result.ending_bankroll, cfg.starting_bankroll), One)

\* C9 witness: a result over two settled trades that moved the bankroll.
C9_Witness ==
    /\ Returned
    /\ Len(settled) = 2
    /\ result.ending_bankroll # cfg.starting_bankroll
    /\ settled[1].bankroll_after # result.ending_bankroll

RECURSIVE SumOfAbsEdges(_)
\* the sum of |edge| over a list of trades
SumOfAbsEdges(trades) ==
    IF trades = <<>> THEN Zero
    ELSE RAdd(SumOfAbsEdges(Tail(trades)),
              IF Head(trades).edge.n < 0 THEN RNeg(Head(trades).edge) ELSE Head(trades).edge)

\* C10: the aggregates are over settled trades only: total_trades is their
\* number, winning_trades those with PnL > 0, losing_trades those with
\* PnL < 0, win_rate = winning_trades / total_trades, average_edge the mean
\* of |edge|; without trades win_rate and average_edge are 0 and
\* ending_bankroll is starting_bankroll.
C10_Aggregates ==
    Returned =>
        LET total == Len(settled)
            won == Cardinality({k \in 1..total : RGt(settled[k].pnl_dollars, Zero)})
            lost == Cardinality({k \in 1..total : RLt(settled[k].pnl_dollars, Zero)})
        IN  /\ result.total_trades = total
            /\ result.winning_trades = won
            /\ result.losing_trades = lost
            /\ total > 0 =>
                  /\ result.win_rate = Rat(won, total)
                  /\ result.average_edge =
                        RDiv(SumOfAbsEdges(settled), Rat(total, 1))
            /\ total = 0 =>
                  /\ result.win_rate = Zero
                  /\ result.average_edge = Zero
                  /\ result.ending_bankroll = cfg.starting_bankroll

\* C10 witness: a result over one winning buy_no trade (negative edge) out
\* of two rows consumed: the win rate is 1, not 1/2.
C10_Witness ==
    /\ Returned
    /\ pos = 2
    /\ result.total_trades = 1
    /\ settled[1].side = "buy_no"
    /\ result.winning_trades = 1
    /\ result.win_rate = One
    /\ result.average_edge = RNeg(settled[1].edge)

\* C11: run_backtest does not sort or reorder.  Each loop step consumes
\* exactly the next row of the list (the row at position pos + 1) and either
\* leaves the trades alone or appends one trade, made from that very row, at
\* the end; nothing else ever changes the trades.  So the trades are a
\* subsequence of the input rows in list order, whatever the timestamps are,
\* and the result carries them in that order.
C11_ListOrder ==
    [][ Running =>
          /\ pos' # pos =>
                /\ pos' = pos + 1
                /\ row'.event_id = pos'
                /\ \/ settled' = settled
                   \/ /\ Len(settled') = Len(settled) + 1
                      /\ SubSeq(settled', 1, Len(settled)) = settled
                      /\ settled'[Len(settled')].event_id = row'.event_id
                      /\ settled'[Len(settled')].contract_ticker = row'.contract_ticker
                      /\ settled'[Len(settled')].timestamp = row'.timestamp
          /\ pos' = pos => settled' = settled
          /\ result' # None => result'.trades = settled
          /\ \A i, j \in 1..Len(settled') :
                i < j => settled'[i].event_id < settled'[j].event_id ]_vars

\* C11 witness: a returned backtest with two trades, the first dated after
\* the second, in list order.
C11_Witness ==
    /\ Returned
    /\ cfg # TestArgs
    /\ Len(result.trades) = 2
    /\ result.trades[1].timestamp > result.trades[2].timestamp
    /\ result.trades[1].event_id = 1
    /\ result.trades[2].event_id = 2

\* C12: a degenerate market price causes "no signal", not an exception.  A
\* call of build_signal with market probability m <= 0 or m >= 1 returns
\* None (not a Signal, not a raised exception) whatever the forecast and
\* min_edge are; and a loop step of run_backtest on a row with such a price
\* leaves bankroll and trades unchanged and the backtest running.
C12_DegeneratePriceNoSignal ==
    [][ /\ (/\ call.fn = "build_signal"
            /\ ret = Pending
            /\ ret' # Pending
            /\ \/ RLe(call.market_probability, Zero)
               \/ RGe(call.market_probability, One)) => ret' = None
        /\ (Running /\ pos' = pos + 1 /\ Degenerate(row')) =>
              /\ bankroll' = bankroll
              /\ settled' = settled
              /\ result' = None ]_vars

\* C12 witness: build_signal returned None for m = 1 on the buy_no side (the
\* edge is beyond the threshold, the NO price is 0).
C12_Witness ==
    /\ BuildSignalReturned
    /\ call.market_probability = One
    /\ RLe(RSub(call.forecast_probability, call.market_probability), RNeg(call.min_edge))
    /\ RLt(RSub(call.forecast_probability, call.market_probability), call.min_edge)
    /\ ret = None

-----------------------------------------------------------------------------
(* Claims about run discovery and the order of a forecast request          *)
(* (checked under SpecRequest).                                            *)

Discovering == request.op # "none"
IsCompute == request.op \in {"temperature", "precip"}
\* the number of candidates of N lookback days: 4 * (N + 1)
CandidateTotal == 4 * (request.lookback_days + 1)
\* the last request issued was a probe of find_latest_run
JustProbed == log # <<>> /\ log[Len(log)].url = "probe"
NoDatasetFound == error = RuntimeError("Could not find a recent GEFS dataset on NOMADS.")

\* the probes went to day offsets 0, 1, ... in turn and, within a day, to
\* the hours 18, 12, 6, 0 in turn: so no candidate twice, none skipped
ProbedInOrder ==
    \A k \in 1..Len(Probes) :
        /\ Probes[k].day_offset = (k - 1) \div 4
        /\ Probes[k].cycle_hour = 18 - 6 * ((k - 1) % 4)

\* the text begins with the marker
BeginsWithMarker(text) == Len(text) >= 1 /\ text[1] = Opener
\* the text begins with the marker once its leading whitespace is dropped
BeginsWithMarkerAfterWhitespace(text) ==
    \E i \in 1..Len(text) :
        /\ text[i] = Opener
        /\ \A j \in 1..(i - 1) : text[j].tok = "whitespace"

TransportFailures == {"HTTPError", "URLError", "TimeoutError", "RemoteDisconnected"}
\* the probe did not make its candidate the run: transport failed or the
\* body lacks the marker
ProbeFailed ==
    \/ response.kind \in TransportFailures
    \/ response.kind = "text" /\ ~BeginsWithMarkerAfterWhitespace(response.text)

\* C14: a transport failure, or a body without the marker, on one candidate
\* never leaves find_latest_run as an exception and never ends the scan
\* while candidates remain; find_latest_run fails with "no dataset found"
\* exactly when all 4 * (N + 1) candidates were probed and each failed in
\* transport or lacked the marker.
C14_FailuresNeverPropagate ==
    Discovering =>
        /\ error # None => error.kind \notin TransportFailures
        /\ (JustProbed /\ ProbeFailed /\ Len(Probes) < CandidateTotal) =>
              pc = "find_latest_run"
        /\ NoDatasetFound <=>
              (run = None /\ JustProbed /\ ProbeFailed /\ Len(Probes) = CandidateTotal)

\* C15: a compute_* request with a latitude outside [-90, 90] (and a known
\* time zone) makes no network request at all, and when it ends it ends
\* with the invalid-latitude error.
C15_CoordinateCheckedFirst ==
    (/\ IsCompute
     /\ request.timezone_known
     /\ RLt(request.lat, Rat(-90, 1)) \/ RGt(request.lat, Rat(90, 1))) =>
        /\ log = <<>>
        /\ pc # "returned"
        /\ pc = "raised" => error = ValueError("Latitude must be between -90 and 90.")

IsAfterDiscovery(entry) == entry.url # "probe"
\* the requests issued after run discovery, in order, by what they ask for
LaterRequests ==
    LET later == SelectSeq(log, IsAfterDiscovery)
    IN  [i \in 1..Len(later) |-> later[i].url]
\* the requests of a complete computation
AllRequests ==
    IF request.op = "temperature" THEN <<"time", "field">> ELSE <<"time", "dds", "field">>
NoTimestepsForDate == error = RuntimeError("No GEFS timesteps available for local date.")

\* the state of a computation whose later requests are sequential, each
\* issued at most once, and fatal when they fail
SequentialAndFatal ==
    IsCompute =>
        /\ Len(LaterRequests) <= Len(AllRequests)
        /\ LaterRequests = SubSeq(AllRequests, 1, Len(LaterRequests))
        /\ \A i, j \in 1..Len(log) : (i < j /\ log[j].url = "probe") => log[i].url = "probe"
        /\ LaterRequests # <<>> => run # None
        /\ (LaterRequests # <<>> /\ response.kind \in TransportFailures) =>
              (pc = "raised" /\ error = response)
        /\ NoTimestepsForDate => LaterRequests = <<"time">>

\* C24: after run discovery a computation requests the time axis, then (for
\* precipitation) the variable declarations, then the field, in this order
\* and each at most once; a transport failure of any of them leaves the
\* computation as its error, after which no request is issued; and the
\* no-timestep failure comes before any declaration or field request.
C24_SequentialRequests ==
    /\ []SequentialAndFatal
    /\ [][ /\ Len(log') <= Len(log) + 1
           /\ pc = "raised" => log' = log ]_vars

\* C24 witness: a precipitation computation whose declaration request
\* failed in transport, after the time-axis request and before any field
\* request.
C24_Witness ==
    /\ request.op = "precip"
    /\ LaterRequests = <<"time", "dds">>
    /\ response = Raises("URLError")
    /\ pc = "raised"
    /\ error = Raises("URLError")

-----------------------------------------------------------------------------
(* Claims about the pure functions of the forecast (checked under          *)
(* SpecForecast).                                                          *)

\* a reading: finite and below one tenth of the fill sentinel
Reading(value) == value # NaN /\ value # FILL_VALUE
TemperatureReturned == call.fn = "temperature_probability" /\ ret # Pending
PrecipReturned == call.fn = "precip_probability" /\ ret # Pending
\* the members (rows) of the call's matrix
Members == 1..Len(call.matrix)
\* threshold_f in kelvin: (F - 32) * 5 / 9 + 273.15
ThresholdK == RAdd(RDiv(RMul(RSub(call.threshold_f, Rat(32, 1)), Rat(5, 1)), Rat(9, 1)),
                   Rat(27315, 100))
\* the members with at least one reading, and those of them with a reading
\* at or above the threshold (that is, whose largest reading is)
MembersWithReading ==
    {m \in Members : \E t \in 1..Len(call.matrix[m]) : Reading(call.matrix[m][t])}
MembersReaching ==
    {m \in Members : \E t \in 1..Len(call.matrix[m]) :
        /\ Reading(call.matrix[m][t])
        /\ RGe(call.matrix[m][t], ThresholdK)}

\* C16: the temperature probability is (members whose largest reading is at
\* or above the threshold in K) / (members with at least one reading): a
\* member without a reading is in neither count, the result lies in [0, 1],
\* and the no-valid-data error is raised exactly when no member has a reading.
C16_TemperatureProbability ==
    TemperatureReturned =>
        IF MembersWithReading = {}
        THEN ret = RuntimeError("No valid ensemble values found for the selected event window.")
        ELSE /\ ~IsError(ret)
             /\ ret.total_runs = Cardinality(MembersWithReading)
             /\ ret.runs_exceeding = Cardinality(MembersReaching)
             /\ ret.probability =
                    Rat(Cardinality(MembersReaching), Cardinality(MembersWithReading))
             /\ RGe(ret.probability, Zero)
             /\ RLe(ret.probability, One)

\* C16 witness: three members, one without a reading (a NaN or the fill
\* value), one below and one exactly at the threshold: probability 1/2.
C16_Witness ==
    /\ TemperatureReturned
    /\ Len(call.matrix) = 3
    /\ Cardinality(MembersWithReading) = 2
    /\ \E m \in Members : call.matrix[m] = <<FILL_VALUE>>
    /\ \E m \in Members : call.matrix[m] = <<ThresholdK>>
    /\ ret.probability = Rat(1, 2)

\* the timesteps of the target window in a row of the fetched matrix
Window(m) == (call.window_offset + 1)..Len(call.matrix[m])
MembersWithReadingInWindow ==
    {m \in Members : \E t \in Window(m) : Reading(call.matrix[m][t])}

\* C17: in the precipitation probability, under either classification, a
\* member with no reading inside the target window is in neither count: the
\* members counted are at most those with a reading in the window, and when
\* there is none the operation fails for want of a total.
C17_NoReadingNoVote ==
    PrecipReturned =>
        IF IsError(ret)
        THEN ret = RuntimeError("No valid ensemble precipitation totals found.")
        ELSE /\ ret.total_runs <= Cardinality(MembersWithReadingInWindow)
             /\ ret.runs_exceeding <= ret.total_runs

GridIndicesReturned == call.fn = "nearest_grid_indices" /\ ret # Pending
GridCoordsReturned == call.fn = "grid_coords_from_indices"
\* the distance of two longitudes on the circle
LonDistance(a, b) ==
    LET d == RMod(RSub(a, b), Rat(360, 1))
    IN  RMin(d, RSub(Rat(360, 1), d))

\* C18: for a latitude in [-90, 90] and any longitude, the grid point that
\* grid_coords_from_indices gives for the indices of nearest_grid_indices
\* is within 0.25 degrees of the requested point in latitude and in
\* longitude (longitudes compared on the circle).
C18_RoundTrip ==
    GridCoordsReturned =>
        /\ RLe(RAbs(RSub(ret.lat, call.requested_lat)), Rat(1, 4))
        /\ RLe(LonDistance(ret.lon, call.requested_lon), Rat(1, 4))

\* C19: nearest_grid_indices raises for a latitude outside [-90, 90];
\* otherwise, for any longitude, the latitude index lies in 0..360 and the
\* longitude index in 0..719.
C19_IndicesInRange ==
    GridIndicesReturned =>
        IF RLt(call.lat, Rat(-90, 1)) \/ RGt(call.lat, Rat(90, 1))
        THEN ret = ValueError("Latitude must be between -90 and 90.")
        ELSE /\ ~IsError(ret)
             /\ ret.lat_idx \in 0..360
             /\ ret.lon_idx \in 0..719

\* C19 witness: a longitude an eighth of a degree short of 360, at the north
\* pole: the indices are the last of both axes.
C19_Witness ==
    /\ GridIndicesReturned
    /\ call.lat = Rat(90, 1)
    /\ call.lon = Rat(2879, 8)
    /\ ret.lat_idx = 360
    /\ ret.lon_idx = 719

FindPrecipReturned == call.fn = "find_precip_variable" /\ ret # Pending
\* the positions of the declared names that equal key up to letter case
ExactMatches(key) == {i \in 1..Len(call.declared) : lower(call.declared[i]) = key}
\* the positions of the declared names containing "apcp" or "precip"
SubstringMatches ==
    {i \in 1..Len(call.declared) :
        \/ contains(lower(call.declared[i]), <<"a", "p", "c", "p">>)
        \/ contains(lower(call.declared[i]), <<"p", "r", "e", "c", "i", "p">>)}
\* the canonical name, if any, that some declared name equals up to letter case
MatchedKey ==
    IF ExactMatches(apcpsfc) # {} THEN apcpsfc
    ELSE IF ExactMatches(apcp) # {} THEN apcp
    ELSE <<>>
\* the declarations of the call in every order
Reorderings ==
    LET len == Len(call.declared)
        perms == {f \in [1..len -> 1..len] : \A i, j \in 1..len : f[i] = f[j] => i = j}
    IN  {[i \in 1..len |-> call.declared[f[i]]] : f \in perms}

\* C20 as stated: a declared name equal to "apcpsfc" up to letter case is
\* returned; else one equal to "apcp"; else the first declared name
\* containing "apcp" or "precip"; an exact match gives the same result in
\* whatever order the variables are declared; the function raises when no
\* variable is declared or none qualifies.
C20_PreferenceOrder ==
    FindPrecipReturned =>
        IF call.declared = <<>>
        THEN ret = RuntimeError("Could not parse any variables from GEFS dataset DDS.")
        ELSE IF MatchedKey # <<>>
        THEN /\ ~IsError(ret)
             /\ \E i \in ExactMatches(MatchedKey) : ret.returns = call.declared[i]
             /\ \A names \in Reorderings : find_precip_variable(DdsOf(names)) = ret
        ELSE IF SubstringMatches # {}
        THEN /\ ~IsError(ret)
             /\ \E i \in SubstringMatches :
                   /\ ret.returns = call.declared[i]
                   /\ \A j \in SubstringMatches : i <= j
        ELSE ret = RuntimeError("Could not find a precipitation variable in GEFS dataset DDS.")

\* C20 amended: the same, except that of several declared names equal to
\* the canonical name up to letter case the last declared is returned, and
\* that the result of an exact match is independent of the declaration
\* order up to letter case only.
C20_PreferenceOrderLastWins ==
    FindPrecipReturned =>
        IF call.declared = <<>>
        THEN ret = RuntimeError("Could not parse any variables from GEFS dataset DDS.")
        ELSE IF MatchedKey # <<>>
        THEN /\ ~IsError(ret)
             /\ \E i \in ExactMatches(MatchedKey) :
                   /\ ret.returns = call.declared[i]
                   /\ \A j \in ExactMatches(MatchedKey) : j <= i
             /\ \A names \in Reorderings :
                   /\ ~IsError(find_precip_variable(DdsOf(names)))
                   /\ lower(find_precip_variable(DdsOf(names)).returns) = MatchedKey
        ELSE IF SubstringMatches # {}
        THEN /\ ~IsError(ret)
             /\ \E i \in SubstringMatches :
                   /\ ret.returns = call.declared[i]
                   /\ \A j \in SubstringMatches : i <= j
        ELSE ret = RuntimeError("Could not find a precipitation variable in GEFS dataset DDS.")

\* C20 witness: "apcpsfc" declared before "APCPsfc": the later one is returned.
C20_Witness ==
    /\ FindPrecipReturned
    /\ call.declared = <<apcpsfc, APCPsfc>>
    /\ ret = Returns(APCPsfc)

IsCumulativeReturned == call.fn = "is_cumulative_matrix" /\ ret # Pending
\* member m decreases: one of its readings is more than 1e-6 below the
\* reading before it, the cells between the two being no readings
Decreases(m) ==
    \E t1, t2 \in 1..Len(call.matrix[m]) :
        /\ t1 < t2
        /\ Reading(call.matrix[m][t1])
        /\ Reading(call.matrix[m][t2])
        /\ \A t \in (t1 + 1)..(t2 - 1) : ~Reading(call.matrix[m][t])
        /\ RLtWide(RAddWide(call.matrix[m][t2], Rat(1, 1000000)), call.matrix[m][t1])
\* threshold_in in millimetres
ThresholdMm == RMul(call.threshold_in, Rat(254, 10))
RECURSIVE SumOfReadings(_, _)
\* the sum of the readings of member m from timestep t on
SumOfReadings(m, t) ==
    IF t > Len(call.matrix[m]) THEN Zero
    ELSE RAdd(IF Reading(call.matrix[m][t]) THEN call.matrix[m][t] ELSE Zero,
              SumOfReadings(m, t + 1))

\* C21: _is_cumulative_matrix returns true exactly when no member decreases
\* (a reading more than 1e-6 below the previous reading of the same member,
\* invalid cells skipped), false as soon as one member does; and the verdict
\* is matrix-wide: with one decreasing member the precipitation probability
\* takes every member's total to be the sum of its readings in the window.
C21_MatrixWideClassifier ==
    /\ IsCumulativeReturned => (ret.returns <=> \A m \in Members : ~Decreases(m))
    /\ (PrecipReturned /\ \E m \in Members : Decreases(m)) =>
          /\ ~IsError(ret)
          /\ ret.total_runs = Cardinality(Members)
          /\ ret.runs_exceeding =
                Cardinality({m \in Members :
                                RGe(SumOfReadings(m, call.window_offset + 1), ThresholdMm)})

\* C21 witness: a member that decreases by twice the tolerance across an
\* invalid cell: not cumulative.
C21_Witness ==
    /\ IsCumulativeReturned
    /\ Len(call.matrix) = 1
    /\ call.matrix[1] = <<One, NaN, RSub(One, Rat(2, 1000000))>>
    /\ ret = Returns(FALSE)

\* the matrix of the call is cumulative: no member decreases
NoMemberDecreases == \A m \in Members : ~Decreases(m)
\* the timesteps of member m, of lo..hi, that hold a reading
ReadingsIn(m, lo, hi) == {t \in lo..hi : t <= Len(call.matrix[m]) /\ Reading(call.matrix[m][t])}
LastReading(m, lo, hi) ==
    call.matrix[m][CHOOSE t \in ReadingsIn(m, lo, hi) : \A u \in ReadingsIn(m, lo, hi) : u <= t]
FirstReading(m, lo, hi) ==
    call.matrix[m][CHOOSE t \in ReadingsIn(m, lo, hi) : \A u \in ReadingsIn(m, lo, hi) : t <= u]
\* a pre-window step was fetched
BaselineFetched == call.fetch_start < call.time_start
\* the member has a total: its window has a step and, in a cumulative
\* matrix, a reading in the window and a baseline
HasTotal(m) ==
    /\ Window(m) # {}
    /\ NoMemberDecreases =>
          /\ ReadingsIn(m, call.window_offset + 1, Len(call.matrix[m])) # {}
          /\ BaselineFetched => ReadingsIn(m, 1, call.window_offset) # {}
\* the total of a member that has one, as the claim states it
TotalOf(m) ==
    IF NoMemberDecreases
    THEN LET last == LastReading(m, call.window_offset + 1, Len(call.matrix[m]))
             baseline == IF BaselineFetched
                         THEN LastReading(m, 1, call.window_offset)
                         ELSE FirstReading(m, call.window_offset + 1, Len(call.matrix[m]))
         IN  IF RLt(RSub(last, baseline), Zero) THEN Zero ELSE RSub(last, baseline)
    ELSE SumOfReadings(m, call.window_offset + 1)

\* C23: the fetch starts one step before the first target step unless that
\* step is index 0, the target window being the steps after the fetched
\* baseline step; a member's total is, in a cumulative matrix,
\* max(0, last reading in the window - baseline), the baseline being the
\* last reading before the window when a pre-window step was fetched and
\* the first reading in the window otherwise, and, in an incremental
\* matrix, the sum of the readings in the window without the baseline step;
\* the counts reported are the counts over these totals.
C23_MemberTotals ==
    PrecipReturned =>
        /\ call.fetch_start = (IF call.time_start = 0 THEN 0 ELSE call.time_start - 1)
        /\ call.window_offset = (IF call.time_start = 0 THEN 0 ELSE 1)
        /\ \A m \in Members :
              MemberTotal(call.matrix[m], call.window_offset, ~ \E k \in Members : Decreases(k))
                  = (IF HasTotal(m) THEN TotalOf(m) ELSE None)
        /\ IF \A m \in Members : ~HasTotal(m)
           THEN IsError(ret)
           ELSE /\ ~IsError(ret)
                /\ ret.total_runs = Cardinality({m \in Members : HasTotal(m)})
                /\ ret.runs_exceeding =
                      Cardinality({m \in Members : HasTotal(m) /\ RGe(TotalOf(m), ThresholdMm)})

\* C23 witness: a cumulative member fetched with its baseline step (1 mm
\* before the window, 2 mm at its end): its total is 1 mm, at the threshold.
C23_Witness ==
    /\ PrecipReturned
    /\ call.time_start = 2
    /\ call.fetch_start = 1
    /\ call.matrix = << <<One, NaN, Rat(2, 1)>> >>
    /\ ret.runs_exceeding = 1

ParseMatrixReturned == call.fn = "parse_member_time_matrix" /\ ret # Pending
\* the bracketed numbers the first line of the response declares
Declared ==
    IF call.text[1].tok = "dimensions" THEN call.text[1].dims
    ELSE IF call.text[1].tok = "cell" THEN call.text[1].indices
    ELSE <<>>
\* the data lines (after the first line) that are well-formed and carry the
\* ensemble index i and the time index j first
LinesFor(i, j) ==
    {k \in 2..Len(call.text) :
        /\ call.text[k].tok = "cell"
        /\ Len(call.text[k].indices) >= 2
        /\ call.text[k].indices[1] = i
        /\ call.text[k].indices[2] = j}

\* C25: parse_member_time_matrix raises exactly when the response has no
\* line or its first line declares fewer than 2 bracketed dimensions;
\* otherwise, for the declared counts E and T, it returns E rows of T cells,
\* cell (i, j) holding the value of the last well-formed data line with the
\* indices i, j and not-a-number when there is none: so a malformed line
\* and a line with an index out of bounds change nothing.
C25_DenseMatrix ==
    ParseMatrixReturned =>
        IF call.text = <<>> THEN IsError(ret)
        ELSE IF Len(Declared) < 2 THEN IsError(ret)
        ELSE /\ ~IsError(ret)
             /\ Len(ret.returns) = Declared[1]
             /\ \A i \in 0..(Declared[1] - 1) :
                   /\ Len(ret.returns[i + 1]) = Declared[2]
                   /\ \A j \in 0..(Declared[2] - 1) :
                         ret.returns[i + 1][j + 1] =
                             IF LinesFor(i, j) = {} THEN NaN
                             ELSE call.text[CHOOSE k \in LinesFor(i, j) :
                                               \A l \in LinesFor(i, j) : l <= k].value

\* C25 witness: a 1 x 2 response with two lines for cell (0, 0) and none
\* for cell (0, 1): the later value and not-a-number.
C25_Witness ==
    /\ ParseMatrixReturned
    /\ call.text = <<Dims(<<1, 2>>), Cell(<<0, 0>>, One), Cell(<<0, 0>>, Rat(2, 1))>>
    /\ ret = Returns(<< <<Rat(2, 1), NaN>> >>)

-----------------------------------------------------------------------------
(* Further claims about run_backtest (checked under Spec).                 *)

\* the bankroll immediately before the row of the k-th settled trade
BankrollBefore(k) ==
    IF k = 1 THEN cfg.starting_bankroll ELSE settled[k - 1].bankroll_after
\* the bounded fraction of a settled trade:
\* min(max_fraction_per_contract, kelly_scale * raw Kelly fraction)
FractionOf(trade) ==
    RMin(Config.max_fraction_per_contract,
         RMul(Config.kelly_scale,
              RawKelly(trade.side, trade.forecast_probability, trade.market_probability)))

\* C22: the stake of every settled trade is its bounded fraction times the
\* bankroll immediately before its row (the previous trade's bankroll_after,
\* starting_bankroll for the first), and not the fraction times the starting
\* bankroll once an earlier trade has changed the bankroll.
C22_StakeOnCurrentBankroll ==
    Running =>
        \A k \in 1..Len(settled) :
            /\ settled[k].stake_dollars = RMul(BankrollBefore(k), FractionOf(settled[k]))
            /\ BankrollBefore(k) # cfg.starting_bankroll =>
                  settled[k].stake_dollars #
                      RMul(cfg.starting_bankroll, FractionOf(settled[k]))

\* C22 witness: a second trade staked on the bankroll a winning first trade
\* left behind.
C22_Witness ==
    /\ Running
    /\ Len(settled) = 2
    /\ RGt(settled[1].pnl_dollars, Zero)
    /\ settled[2].stake_dollars =
          RMul(settled[1].bankroll_after, FractionOf(settled[2]))
    /\ RGt(settled[2].stake_dollars,
           RMul(cfg.starting_bankroll, FractionOf(settled[2])))

\* a float that is the value of an expression, not an exception raised in it
IsValue(x) == x.d # 0

\* C26: no division by zero is raised by build_signal, size_signal,
\* _settle_pnl or run_backtest, whatever the inputs.  No call and no
\* backtest ends in ZeroDivisionError and no amount computed is one; where a
\* result shows that a division by a price took place (a Signal, a
\* SizedSignal, a nonzero PnL, a settled trade) the price divided by is
\* strictly inside (0,1); and win_rate, average_edge and return_pct are 0,
\* not a quotient, when the trade count or the starting bankroll is not
\* strictly positive.
C26_NoDivisionByZero ==
    /\ ret # ZeroDivisionError
    /\ result # ZeroDivisionError
    /\ (BuildSignalReturned /\ ret.kind = "Signal") =>
          /\ IsValue(ret.expected_value_per_dollar)
          /\ ret.side = "buy_yes" => InUnit(call.market_probability)
          /\ ret.side = "buy_no" => InUnit(RSub(One, call.market_probability))
    /\ (SizeSignalReturned /\ ret.kind = "SizedSignal") =>
          /\ IsValue(ret.fraction_of_bankroll)
          /\ IsValue(ret.stake_dollars)
          /\ InUnit(call.signal.market_probability)
    /\ (call.fn = "settle_pnl" /\ ret # Pending /\ ret # Zero) =>
          /\ InUnit(call.price_yes)
          /\ InUnit(RSub(One, call.price_yes))
    /\ Running =>
          /\ IsValue(bankroll)
          /\ \A k \in 1..Len(settled) :
                /\ InUnit(settled[k].market_probability)
                /\ InUnit(RSub(One, settled[k].market_probability))
                /\ IsValue(settled[k].stake_dollars)
                /\ IsValue(settled[k].pnl_dollars)
                /\ IsValue(settled[k].bankroll_after)
    /\ Returned =>
          /\ IsValue(result.win_rate)
          /\ IsValue(result.average_edge)
          /\ IsValue(result.return_pct)
          /\ IsValue(result.total_pnl)
          /\ result.total_trades <= 0 =>
                (result.win_rate = Zero /\ result.average_edge = Zero)
          /\ RLe(cfg.starting_bankroll, Zero) => result.return_pct = Zero

\* C26 witness: size_signal called for a buy_yes signal at the price 1 (the
\* Kelly denominator 1 - price is 0) with a positive bankroll: no trade.
C26_Witness ==
    /\ SizeSignalReturned
    /\ call.signal.side = "buy_yes"
    /\ call.signal.market_probability = One
    /\ RGt(call.bankroll, Zero)
    /\ RGt(call.config.kelly_scale, Zero)
    /\ ret = None

\* the run has a positive starting bankroll and a cap below 1
PositiveAndCapped ==
    /\ Running
    /\ RGt(cfg.starting_bankroll, Zero)
    /\ RLt(Config.max_fraction_per_contract, One)

\* C27: with starting_bankroll > 0 and max_fraction_per_contract < 1 the
\* bankroll is strictly positive after any rows and outcomes, and every
\* settled trade's stake, hence its loss if it loses, is at most
\* max_fraction_per_contract times the bankroll immediately before it.
C27_BankrollStaysPositive ==
    PositiveAndCapped =>
        /\ RGt(bankroll, Zero)
        /\ \A k \in 1..Len(settled) :
              /\ RGt(settled[k].bankroll_after, Zero)
              /\ RLe(settled[k].stake_dollars,
                     RMul(Config.max_fraction_per_contract, BankrollBefore(k)))
              /\ RGe(settled[k].pnl_dollars,
                     RNeg(RMul(Config.max_fraction_per_contract, BankrollBefore(k))))

\* C27 witness: two trades staked at the cap of one half and lost: a quarter
\* of the starting bankroll is left.
C27_Witness ==
    /\ PositiveAndCapped
    /\ Len(settled) = 2
    /\ Config.max_fraction_per_contract = Rat(1, 2)
    /\ \A k \in 1..2 : settled[k].pnl_dollars = RNeg(RMul(Rat(1, 2), BankrollBefore(k)))
    /\ bankroll = RMul(Rat(1, 4), cfg.starting_bankroll)

\* the trade won: its outcome is the one its side bought
Won(trade) ==
    \/ trade.side = "buy_yes" /\ trade.outcome = 1
    \/ trade.side = "buy_no" /\ trade.outcome = 0

\* C28: every settled trade has a market price strictly inside (0,1) and a
\* stake > 0, a PnL > 0 if it won and < 0 if not, never 0; a trade whose
\* outcome is neither 0 nor 1 loses its full stake on either side (and so
\* does a direct call of _settle_pnl with such an outcome); hence
\* winning_trades + losing_trades = total_trades in every result.
C28_NoZeroPnl ==
    /\ Running =>
          \A k \in 1..Len(settled) :
              /\ InUnit(settled[k].market_probability)
              /\ RGt(settled[k].stake_dollars, Zero)
              /\ settled[k].pnl_dollars # Zero
              /\ Won(settled[k]) => RGt(settled[k].pnl_dollars, Zero)
              /\ ~Won(settled[k]) => RLt(settled[k].pnl_dollars, Zero)
              /\ settled[k].outcome \notin {0, 1} =>
                    settled[k].pnl_dollars = RNeg(settled[k].stake_dollars)
    /\ Returned =>
          result.winning_trades + result.losing_trades = result.total_trades
    /\ (/\ call.fn = "settle_pnl"
        /\ ret # Pending
        /\ InUnit(call.price_yes)
        /\ RGt(call.stake, Zero)
        /\ call.side \in {"buy_yes", "buy_no"}
        /\ call.outcome \notin {0, 1}) => ret = RNeg(call.stake)

\* C28 witness: a result whose two trades, one on each side, have the
\* outcome 2: both are losses of the full stake.
C28_Witness ==
    /\ Returned
    /\ result.total_trades = 2
    /\ settled[1].side # settled[2].side
    /\ \A k \in 1..2 : settled[k].outcome = 2
    /\ \A k \in 1..2 : settled[k].pnl_dollars = RNeg(settled[k].stake_dollars)
    /\ result.losing_trades = 2

\* cfg allows no loss of the whole bankroll
PositiveAndBelowOne(args) ==
    /\ RGt(args.starting_bankroll, Zero)
    /\ RLt((IF args.risk_config = None THEN DefaultRiskConfig ELSE args.risk_config)
               .max_fraction_per_contract, One)

\* rows in the order perm
Permuted(rows, perm) == [k \in 1..Len(rows) |-> rows[perm[k]]]

TradedIds(res) == {res.trades[k].event_id : k \in 1..Len(res.trades)}

\* the totals of two results are the same
SameTotals(a, b) ==
    /\ TradedIds(a) = TradedIds(b)
    /\ a.total_trades = b.total_trades
    /\ a.winning_trades = b.winning_trades
    /\ a.losing_trades = b.losing_trades
    /\ a.average_edge = b.average_edge
    /\ a.ending_bankroll = b.ending_bankroll

\* the rows of the trades of a run, in the order they were traded
RowsOf(trades) ==
    [k \in 1..Len(trades) |->
        [BacktestRow(trades[k].event_id, trades[k].contract_ticker,
                     trades[k].forecast_probability, trades[k].market_probability,
                     trades[k].outcome) EXCEPT !.timestamp = trades[k].timestamp]]

\* the run that consumes its rows one at a time (ProcessRow, Finish) returns
\* what run_backtest as one call returns on the rows it traded
RunBacktestAgrees ==
    Returned => result = run_backtest(RowsOf(settled), cfg)

\* C29: with starting_bankroll > 0 and max_fraction_per_contract < 1, the
\* result of run_backtest on a list of rows and its result on any
\* permutation of the list have the same set of traded rows, total_trades,
\* winning_trades, losing_trades, average_edge and ending_bankroll (exact
\* arithmetic).
C29_OrderIndependentTotals ==
    (/\ call.fn = "run_backtest"
     /\ ret # Pending
     /\ PositiveAndBelowOne(call.args)) =>
        \A perm \in Permutations(1..Len(call.rows)) :
            \A other \in {run_backtest(Permuted(call.rows, perm), call.args)} :
                SameTotals(other, ret)

\* C29 witness: a list of three rows of which one is skipped, one is won and
\* one is lost, with starting_bankroll > 0 and cap < 1; in another order the
\* stakes differ.
C29_Witness ==
    /\ call.fn = "run_backtest"
    /\ ret # Pending
    /\ PositiveAndBelowOne(call.args)
    /\ Len(call.rows) = 3
    /\ ret.total_trades = 2
    /\ ret.winning_trades = 1
    /\ ret.losing_trades = 1
    /\ \E perm \in Permutations(1..3) :
           \E other \in {run_backtest(Permuted(call.rows, perm), call.args)} :
               {t.stake_dollars : t \in {other.trades[k] : k \in 1..2}}
                 # {t.stake_dollars : t \in {ret.trades[k] : k \in 1..2}}

\* the bankroll is spent: at most 0
Bankrupt == Running /\ RLe(bankroll, Zero)

\* C30: a bankroll <= 0 is absorbing in run_backtest: from a state with
\* bankroll <= 0 every step leaves the bankroll and the settled trades as
\* they are (every remaining row is skipped); and with starting_bankroll <= 0
\* the result has no trade, ending_bankroll = starting_bankroll,
\* total_pnl = 0 and return_pct = 0.
C30_BankruptIsAbsorbing ==
    /\ []((Returned /\ RLe(cfg.starting_bankroll, Zero)) =>
               /\ result.total_trades = 0
               /\ result.trades = <<>>
               /\ result.ending_bankroll = cfg.starting_bankroll
               /\ result.total_pnl = Zero
               /\ result.return_pct = Zero)
    /\ [][Bankrupt => /\ bankroll' = bankroll
                      /\ settled' = settled]_vars

\* C30 witness: starting_bankroll > 0, the first row was traded with the
\* whole bankroll and lost; the second row has the edge and a price inside
\* (0,1) and was skipped, the bankroll being 0.
C30_Witness ==
    /\ Bankrupt
    /\ RGt(cfg.starting_bankroll, Zero)
    /\ pos = 2
    /\ Len(settled) = 1
    /\ settled[1].event_id = 1
    /\ settled[1].stake_dollars = cfg.starting_bankroll
    /\ bankroll = Zero
    /\ Crosses(row)
    /\ InUnit(row.market_probability)
    /\ row.forecast_probability # row.market_probability

====
